---- MODULE Spec2Model ----
(***************************************************************************)
(* A model of karl-police/rbxapi: the rbxapidump entity model              *)
(* (src/rbxapidump/rbxapi.go), its patch engine and bridge layer           *)
(* (src/rbxapidump/patch.go) and the rbxapijson entity model               *)
(* (src/unnamed/part_000).                                                 *)
(*                                                                         *)
(* A Go string held by an entity (a name, a tag, a packed type, a default) *)
(* is a sequence of one-character strings, so that the code's scans of it  *)
(* (strings.Index, Contains, HasPrefix, slicing) are computed.  The field  *)
(* name of a Change action, which the code only compares with constants,   *)
(* is a TLA+ string.                                                       *)
(***************************************************************************)
EXTENDS Naturals, Integers, Sequences, FiniteSets, TLC

VARIABLES
    tags,      \* SpecTags: the Tags value under test (a sequence of labels)
    origin,    \* SpecTags: "empty" while tags grew from the empty Tag Set by
               \*           SetTag/UnsetTag only, "installed" otherwise
               \* Spec: "unique" when the Root started with pairwise distinct
               \*       class names and enum names, "repeated" otherwise
    heap,      \* the Go heap: a sequence of objects, an address is an index
    root,      \* address of the Root that Patch is applied to
    pool,      \* addresses of the caller's entities (templates carried by
               \* actions, sources of a bridge or Copy call)
    res,       \* SpecBridge: address returned by the bridge call (0: none);
               \* SpecCopy: [src, cp], the addresses of the original and of
               \*           its copy
    steps,     \* operations applied so far
    added,     \* addresses of the templates that an Add action has carried
    last,      \* the last operation applied, with its arguments
    prev       \* the value (SpecTags) or heap the last operation was applied to

vars == <<tags, origin, heap, root, pool, res, steps, added, last, prev>>

\* the variables of the heap specifications
heapVars == <<heap, root, pool, res, steps, added>>

----------------------------------------------------------------------------
(* Bounds of the model.                                                    *)

\* longest tag list installed directly
MaxTags == 3
\* most labels passed to one SetTag/UnsetTag call
MaxArgs == 2

----------------------------------------------------------------------------
(* Generic helpers on sequences.                                           *)

\* s without its element at (1-based) index i: append(s[:i], s[i+1:]...)
RemoveAt(s, i) == SubSeq(s, 1, i - 1) \o SubSeq(s, i + 1, Len(s))

\* the elements of s
Range(s) == {s[i] : i \in 1..Len(s)}

\* all sequences over S of length lo..hi
SeqsOf(S, lo, hi) == UNION {[1..n -> S] : n \in lo..hi}

\* the element of a one-element set.  Only({e : x \in {v}}) is e with x
\* naming the value of v: the results of the statements of a function are
\* bound this way, the last statement first.
Only(S) == CHOOSE x \in S : TRUE

\* no element of s occurs twice
NoDup(s) == \A i, j \in 1..Len(s) : s[i] = s[j] => i = j

\* the subsequence of s of the elements satisfying Keep, in order
RECURSIVE FilterSeq(_, _)
FilterSeq(s, keepSet) ==
    IF s = <<>> THEN <<>>
    ELSE (IF Head(s) \in keepSet THEN <<Head(s)>> ELSE <<>>)
         \o FilterSeq(Tail(s), keepSet)

----------------------------------------------------------------------------
(* Tags (rbxapi.go:520-574, part_000:498-552).                             *)

\* labels used as tags
TagA == <<"a">>
TagB == <<"b">>
TagC == <<"c">>
Labels == {TagA, TagB, TagC}

\* Tags.GetTag: whether the label is present
GetTag(t, tag) == \E i \in 1..Len(t) : t[i] = tag

\* Tags.GetTags of rbxapidump and of rbxapijson (part_000): a copy of the list
GetTags(t) == [i \in 1..Len(t) |-> t[i]]

\* copy(dst, src): dst with its first min(len(dst), len(src)) elements
\* taken from src
CopyInto(dst, src) ==
    [i \in 1..Len(dst) |-> IF i <= Len(src) THEN src[i] ELSE dst[i]]

\* Tags.GetTags of the rbxapijson in patch.go (patch.go:689-693):
\* list := make([]string, 0, len(tags)); copy(list, tags); return list
GetTagsZeroLength(t) == CopyInto(<<>>, t)

\* the implementations of Tags.GetTags: rbxapidump (rbxapi.go:538), rbxapijson
\* (part_000:516) and the rbxapijson of patch.go (patch.go:689)
TagsImplementations == {"rbxapidump", "rbxapijson", "rbxapijson/patch.go"}

\* GetTags of the implementation impl on the Tags value t
GetTagsOf(impl, t) ==
    IF impl = "rbxapijson/patch.go" THEN GetTagsZeroLength(t) ELSE GetTags(t)

\* The dedup loop of SetTag, at 0-based index i (n = len(*tags) throughout):
\* an element equal to an earlier one is deleted and the scan stays at i.
RECURSIVE SetTagLoop(_, _)
SetTagLoop(t, i) ==
    IF ~(i < Len(t)) THEN t
    ELSE IF \E j \in 0..(i - 1) : t[i + 1] = t[j + 1]
         THEN SetTagLoop(RemoveAt(t, i + 1), i)
         ELSE SetTagLoop(t, i + 1)

\* A dedup loop that deletes the earlier of two equal elements, keeping the
\* later one.
RECURSIVE SetTagLoopKeepLast(_, _)
SetTagLoopKeepLast(t, i) ==
    IF ~(i < Len(t)) THEN t
    ELSE IF \E j \in (i + 1)..(Len(t) - 1) : t[i + 1] = t[j + 1]
         THEN SetTagLoopKeepLast(RemoveAt(t, i + 1), i)
         ELSE SetTagLoopKeepLast(t, i + 1)

\* SetTag as it would be with the appended labels left as they are
SetTagNoDedup(t, tag) == t \o tag

\* SetTag as it would be if a label already present moved to the end
SetTagMoveToEnd(t, tag) == SetTagLoopKeepLast(t \o tag, 0)

\* Tags.SetTag(tag...): append, then delete every later duplicate
SetTag(t, tag) == SetTagLoop(t \o tag, 1)

\* The loop of UnsetTag, at 0-based index i: an element equal to one of the
\* labels is deleted and the scan stays at i.
RECURSIVE UnsetTagLoop(_, _, _)
UnsetTagLoop(t, tag, i) ==
    IF ~(i < Len(t)) THEN t
    ELSE IF \E j \in 0..(Len(tag) - 1) : t[i + 1] = tag[j + 1]
         THEN UnsetTagLoop(RemoveAt(t, i + 1), tag, i)
         ELSE UnsetTagLoop(t, tag, i + 1)

\* An UnsetTag loop that steps past the index after a deletion
RECURSIVE UnsetTagLoopSkip(_, _, _)
UnsetTagLoopSkip(t, tag, i) ==
    IF ~(i < Len(t)) THEN t
    ELSE IF \E j \in 0..(Len(tag) - 1) : t[i + 1] = tag[j + 1]
         THEN UnsetTagLoopSkip(RemoveAt(t, i + 1), tag, i + 1)
         ELSE UnsetTagLoopSkip(t, tag, i + 1)

\* UnsetTag as it would be with the index advanced after each deletion
UnsetTagSkip(t, tag) == UnsetTagLoopSkip(t, tag, 0)

\* Tags.UnsetTag(tag...): delete every element equal to one of the labels
UnsetTag(t, tag) == UnsetTagLoop(t, tag, 0)

----------------------------------------------------------------------------
(* SpecTags: one Tags value, driven by SetTag, UnsetTag and direct         *)
(* installation of a list (a struct literal or an assignment such as       *)
(* patch.go:254).                                                          *)

\* tag lists a caller can install directly, duplicates included
TagLists == SeqsOf(Labels, 0, MaxTags)

\* argument lists of one SetTag/UnsetTag call: one or more labels
ArgLists == SeqsOf(Labels, 1, MaxArgs)

NoOp == [op |-> "None", arg |-> <<>>]

TagsInit ==
    /\ \/ tags = <<>> /\ origin = "empty"
       \/ tags \in TagLists /\ origin = "installed"
    /\ last = NoOp
    /\ prev = tags
    /\ heap = <<>> /\ root = 0 /\ pool = <<>> /\ res = 0 /\ steps = 0
    /\ added = {}

TagsSetTag ==
    \E tag \in ArgLists :
        /\ tags' = SetTag(tags, tag)
        /\ last' = [op |-> "SetTag", arg |-> tag]
        /\ prev' = tags
        /\ UNCHANGED <<origin, heapVars>>

TagsUnsetTag ==
    \E tag \in ArgLists :
        /\ tags' = UnsetTag(tags, tag)
        /\ last' = [op |-> "UnsetTag", arg |-> tag]
        /\ prev' = tags
        /\ UNCHANGED <<origin, heapVars>>

TagsInstall ==
    \E list \in TagLists :
        /\ tags' = list
        /\ origin' = "installed"
        /\ last' = [op |-> "Install", arg |-> list]
        /\ prev' = tags
        /\ UNCHANGED heapVars

TagsNext == TagsSetTag \/ TagsUnsetTag \/ TagsInstall

SpecTags == TagsInit /\ [][TagsNext]_vars

----------------------------------------------------------------------------
(* Claims on the Tag Set.                                                  *)

\* C5: starting from the empty Tag Set, after any sequence of SetTag and
\* UnsetTag calls no label occurs more than once in the Tag Set.
C5_TagSetUnique == origin = "empty" => NoDup(tags)

\* C5 witness: a Tag Set grown from empty holds two labels after a SetTag call
\* that repeated a label.
C5_Witness ==
    /\ origin = "empty"
    /\ last.op = "SetTag"
    /\ ~NoDup(last.arg)
    /\ Len(prev) > 0
    /\ Len(tags) >= 2

C7_UnsetRemovesAll ==
    last.op = "UnsetTag"
    => /\ \A i \in 1..Len(last.arg) : ~GetTag(tags, last.arg[i])
       /\ tags = FilterSeq(prev, Range(prev) \ Range(last.arg))

\* C7 witness: UnsetTag(x) was applied to a list that held x in two adjacent
\* positions and another label besides.
C7_Witness ==
    /\ last.op = "UnsetTag"
    /\ Len(last.arg) = 1
    /\ \E i \in 1..(Len(prev) - 1) :
           prev[i] = last.arg[1] /\ prev[i + 1] = last.arg[1]
    /\ Len(tags) >= 1

\* SpecSnapshot: GetTags called once on a Tags value that a caller installed
\* or built.
SnapshotInit ==
    /\ tags \in TagLists
    /\ origin = "installed"
    /\ last = NoOp
    /\ prev = tags
    /\ heap = <<>> /\ root = 0 /\ pool = <<>> /\ res = <<>> /\ steps = 0
    /\ added = {}

\* list := tags.GetTags(), by one of the implementations: res is the list
TagsGetTags ==
    /\ steps = 0
    /\ \E impl \in TagsImplementations :
           /\ res' = GetTagsOf(impl, tags)
           /\ last' = [op |-> "GetTags", arg |-> impl]
    /\ prev' = tags
    /\ steps' = 1
    /\ UNCHANGED <<tags, origin, heap, root, pool, added>>

SpecSnapshot == SnapshotInit /\ [][TagsGetTags]_vars

\* C17 as stated: GetTags returns the labels of the Tag Set, as many and in
\* the same order, so that a label is in the list exactly when GetTag
\* reports it.
C17_TagSnapshotComplete ==
    last.op = "GetTags" =>
        /\ res = tags
        /\ \A x \in Labels : (x \in Range(res)) <=> GetTag(tags, x)

\* C17 failing input: GetTags of the rbxapijson of patch.go on a Tag Set
\* that holds a label returned the empty list.
C17_FailingInput ==
    /\ last.op = "GetTags"
    /\ last.arg = "rbxapijson/patch.go"
    /\ tags # <<>>
    /\ res = <<>>

----------------------------------------------------------------------------
(* The Go heap.  Every pointer target (a Root, Class, Enum, EnumItem or    *)
(* member) and every slice (Classes, Enums, Members, Items, Parameters,    *)
(* Tags) is an object of its own, so that two holders of one address share *)
(* its content.  Strings, Type and Parameter are Go values and are stored  *)
(* inside the object that holds them.                                      *)

\* the nil pointer / nil interface
Nil == 0

\* new(T) / make: the heap with obj at a fresh address, and that address
Alloc(h, obj) == [h |-> Append(h, obj), a |-> Len(h) + 1]

\* a fresh slice holding the sequence s; `of` is the field it is made for
\* ("Tags", "Members", "Parameters", "Items", "Classes", "Enums")
AllocList(h, of, s) == Alloc(h, [k |-> "List", of |-> of, v |-> s])

\* the elements of the slice at address la
ListOf(h, la) == h[la].v

\* the heap with s stored in the slice at address la
SetList(h, la, s) == [h EXCEPT ![la].v = s]

----------------------------------------------------------------------------
(* Strings that the code scans: sequences of one-character strings.        *)

\* strings.Index(s, sub): 0-based index of the first occurrence, or -1
Index(s, sub) ==
    LET hits == {i \in 0..(Len(s) - Len(sub)) :
                     SubSeq(s, i + 1, i + Len(sub)) = sub}
    IN  IF hits = {} THEN -1
        ELSE CHOOSE i \in hits : \A j \in hits : i <= j

\* strings.Contains(s, sub)
Contains(s, sub) == Index(s, sub) >= 0

\* strings.HasPrefix(s, prefix)
HasPrefix(s, prefix) ==
    Len(s) >= Len(prefix) /\ SubSeq(s, 1, Len(prefix)) = prefix

----------------------------------------------------------------------------
(* Type: rbxapidump packs "category:name" into one string (rbxapi.go:577), *)
(* rbxapijson keeps the pair (part_000:555).                               *)

Colon == <<":">>

\* an rbxapidump.Type holding the string s
DumpType(s) == [rep |-> "dump", s |-> s]

\* an rbxapijson.Type
JsonType(category, name) == [rep |-> "json", Category |-> category, Name |-> name]

\* Type.GetName of either representation
TypeGetName(t) ==
    IF t.rep = "dump"
    THEN LET i == Index(t.s, Colon)
         IN  IF i >= 0 THEN SubSeq(t.s, i + 2, Len(t.s)) ELSE t.s
    ELSE t.Name

\* Type.GetCategory of either representation
TypeGetCategory(t) ==
    IF t.rep = "dump"
    THEN LET i == Index(t.s, Colon)
         IN  IF i >= 0 THEN SubSeq(t.s, 1, i) ELSE <<>>
    ELSE t.Category

\* Type.SetFromType: the rbxapidump.Type set from a generic rbxapi.Type
SetFromType(t) ==
    LET cat == TypeGetCategory(t)
    IN  IF cat = <<>> THEN DumpType(TypeGetName(t))
        ELSE DumpType(cat \o Colon \o TypeGetName(t))

\* copyType: a deep copy of a generic rbxapi.Type
copyType(typ) == SetFromType(typ)

----------------------------------------------------------------------------
(* Entities.  A heap object is a record whose field k is the Go type       *)
(* (for a member, also the string GetMemberType returns) and whose field   *)
(* rep is the package: "dump" for rbxapidump (rbxapi.go), "json" for       *)
(* rbxapijson (part_000).  A slice field holds the address of a List.      *)
(* The same records with every slice field holding the sequence itself are *)
(* the address-free values that Load stores and View reads back.           *)

\* rbxapidump.Parameter / rbxapijson.Parameter (rbxapi.go:399, part_000:378)
Param(type, name, hasDefault, default) ==
    [Type |-> type, Name |-> name, HasDefault |-> hasDefault, Default |-> default]

\* rbxapidump.Property (rbxapi.go:154)
DumpProperty(name, class, valueType, t) ==
    [k |-> "Property", rep |-> "dump", Name |-> name, Class |-> class,
     ValueType |-> valueType, Tags |-> t]

\* rbxapidump.Function (rbxapi.go:215) and rbxapidump.Callback (rbxapi.go:319)
DumpFunction(k, name, class, returnType, params, t) ==
    [k |-> k, rep |-> "dump", Name |-> name, Class |-> class,
     ReturnType |-> returnType, Parameters |-> params, Tags |-> t]

\* rbxapidump.Event (rbxapi.go:271)
DumpEvent(name, class, params, t) ==
    [k |-> "Event", rep |-> "dump", Name |-> name, Class |-> class,
     Parameters |-> params, Tags |-> t]

\* rbxapidump.Class (rbxapi.go:87)
DumpClass(name, superclass, members, t) ==
    [k |-> "Class", rep |-> "dump", Name |-> name, Superclass |-> superclass,
     Members |-> members, Tags |-> t]

\* rbxapidump.EnumItem (rbxapi.go:490)
DumpEnumItem(enum, name, value, t) ==
    [k |-> "EnumItem", rep |-> "dump", Enum |-> enum, Name |-> name,
     Value |-> value, Tags |-> t]

\* rbxapidump.Enum (rbxapi.go:439)
DumpEnum(name, items, t) ==
    [k |-> "Enum", rep |-> "dump", Name |-> name, Items |-> items, Tags |-> t]

\* rbxapidump.Root (rbxapi.go:14)
DumpRoot(classes, enums) ==
    [k |-> "Root", rep |-> "dump", Classes |-> classes, Enums |-> enums]

\* rbxapijson.Property (part_000:142)
JsonProperty(name, valueType, readSecurity, writeSecurity, t) ==
    [k |-> "Property", rep |-> "json", Name |-> name, ValueType |-> valueType,
     Category |-> <<>>, ReadSecurity |-> readSecurity,
     WriteSecurity |-> writeSecurity, CanLoad |-> TRUE, CanSave |-> TRUE,
     Tags |-> t]

\* rbxapijson.Function (part_000:192) and rbxapijson.Callback (part_000:296)
JsonFunction(k, name, params, returnType, security, t) ==
    [k |-> k, rep |-> "json", Name |-> name, Parameters |-> params,
     ReturnType |-> returnType, Security |-> security, Tags |-> t]

\* rbxapijson.Event (part_000:248)
JsonEvent(name, params, security, t) ==
    [k |-> "Event", rep |-> "json", Name |-> name, Parameters |-> params,
     Security |-> security, Tags |-> t]

\* rbxapijson.Class (part_000:84)
JsonClass(name, superclass, members, t) ==
    [k |-> "Class", rep |-> "json", Name |-> name, Superclass |-> superclass,
     MemoryCategory |-> <<>>, Members |-> members, Tags |-> t]

\* rbxapijson.EnumItem (part_000:469)
JsonEnumItem(name, value, t) ==
    [k |-> "EnumItem", rep |-> "json", Name |-> name, Value |-> value, Tags |-> t]

\* rbxapijson.Enum (part_000:418)
JsonEnum(name, items, t) ==
    [k |-> "Enum", rep |-> "json", Name |-> name, Items |-> items, Tags |-> t]

\* the member types that carry a parameter list
HasParameters(o) == o.k \in {"Function", "Callback", "Event"}

\* Store the member value mv: its slices first, then the object.
LoadMember(h, mv) ==
    IF HasParameters(mv)
    THEN Only({Only({Alloc(p.h, [mv EXCEPT !.Tags = t.a, !.Parameters = p.a])
                  : p \in {AllocList(t.h, "Parameters", mv.Parameters)}})
             : t \in {AllocList(h, "Tags", mv.Tags)}})
    ELSE Only({Alloc(t.h, [mv EXCEPT !.Tags = t.a])
             : t \in {AllocList(h, "Tags", mv.Tags)}})

\* Store the enum item value iv.
LoadEnumItem(h, iv) ==
    Only({Alloc(t.h, [iv EXCEPT !.Tags = t.a])
        : t \in {AllocList(h, "Tags", iv.Tags)}})

\* Store the values vs with the loader of kind `what`; as: their addresses.
RECURSIVE LoadAll(_, _, _)
LoadClass(h, cv) ==
    Only({Only({Only({Alloc(l.h, [cv EXCEPT !.Tags = t.a, !.Members = l.a])
        : l  \in {AllocList(ms.h, "Members", ms.as)}})
        : ms \in {LoadAll(t.h, cv.Members, "Member")}})
        : t  \in {AllocList(h, "Tags", cv.Tags)}})

LoadEnum(h, ev) ==
    Only({Only({Only({Alloc(l.h, [ev EXCEPT !.Tags = t.a, !.Items = l.a])
        : l  \in {AllocList(is.h, "Items", is.as)}})
        : is \in {LoadAll(t.h, ev.Items, "EnumItem")}})
        : t  \in {AllocList(h, "Tags", ev.Tags)}})

LoadAll(h, vs, what) ==
    IF vs = <<>> THEN [h |-> h, as |-> <<>>]
    ELSE Only({Only({[h |-> rest.h, as |-> <<one.a>> \o rest.as]
             : rest \in {LoadAll(one.h, Tail(vs), what)}})
             : one  \in {CASE what = "Member"   -> LoadMember(h, Head(vs))
                           [] what = "EnumItem" -> LoadEnumItem(h, Head(vs))
                           [] what = "Class"    -> LoadClass(h, Head(vs))
                           [] what = "Enum"     -> LoadEnum(h, Head(vs))}})

\* Store the root value rv.
LoadRoot(h, rv) ==
    Only({Only({Only({Only({
        Alloc(el.h, [rv EXCEPT !.Classes = cl.a, !.Enums = el.a])
        : el \in {AllocList(es.h, "Enums", es.as)}})
        : es \in {LoadAll(cl.h, rv.Enums, "Enum")}})
        : cl \in {AllocList(cs.h, "Classes", cs.as)}})
        : cs \in {LoadAll(h, rv.Classes, "Class")}})

\* The address-free value of the member at address m.
ViewMember(h, m) ==
    LET o == h[m]
    IN  IF HasParameters(o)
        THEN [o EXCEPT !.Tags = ListOf(h, o.Tags),
                       !.Parameters = ListOf(h, o.Parameters)]
        ELSE [o EXCEPT !.Tags = ListOf(h, o.Tags)]

\* The address-free value of the enum item at address i.
ViewEnumItem(h, i) == [h[i] EXCEPT !.Tags = ListOf(h, h[i].Tags)]

\* The address-free value of the class at address c.
ViewClass(h, c) ==
    LET ms == ListOf(h, h[c].Members)
    IN  [h[c] EXCEPT !.Tags = ListOf(h, h[c].Tags),
                     !.Members = [i \in 1..Len(ms) |-> ViewMember(h, ms[i])]]

\* The address-free value of the enum at address e.
ViewEnum(h, e) ==
    LET is == ListOf(h, h[e].Items)
    IN  [h[e] EXCEPT !.Tags = ListOf(h, h[e].Tags),
                     !.Items = [i \in 1..Len(is) |-> ViewEnumItem(h, is[i])]]

\* The address-free value of the root at address r.
ViewRoot(h, r) ==
    LET cs == ListOf(h, h[r].Classes)
        es == ListOf(h, h[r].Enums)
    IN  [h[r] EXCEPT !.Classes = [i \in 1..Len(cs) |-> ViewClass(h, cs[i])],
                     !.Enums = [i \in 1..Len(es) |-> ViewEnum(h, es[i])]]

\* The address-free value of the entity at address a, whatever its type.
View(h, a) ==
    CASE h[a].k = "Root"     -> ViewRoot(h, a)
      [] h[a].k = "Class"    -> ViewClass(h, a)
      [] h[a].k = "Enum"     -> ViewEnum(h, a)
      [] h[a].k = "EnumItem" -> ViewEnumItem(h, a)
      [] h[a].k = "List"     -> ListOf(h, a)
      [] OTHER               -> ViewMember(h, a)

\* The addresses reachable from the entity at address a, a included.
Reach(h, a) ==
    LET o == h[a]
        membersOf(c) == Range(ListOf(h, h[c].Members))
        itemsOf(e)   == Range(ListOf(h, h[e].Items))
        ofMember(m)  == {m, h[m].Tags}
                        \cup (IF HasParameters(h[m]) THEN {h[m].Parameters} ELSE {})
        ofItem(i)    == {i, h[i].Tags}
        ofClass(c)   == {c, h[c].Tags, h[c].Members}
                        \cup UNION {ofMember(m) : m \in membersOf(c)}
        ofEnum(e)    == {e, h[e].Tags, h[e].Items}
                        \cup UNION {ofItem(i) : i \in itemsOf(e)}
    IN  CASE o.k = "Root" ->
                 {a, o.Classes, o.Enums}
                 \cup UNION {ofClass(c) : c \in Range(ListOf(h, o.Classes))}
                 \cup UNION {ofEnum(e) : e \in Range(ListOf(h, o.Enums))}
          [] o.k = "Class"    -> ofClass(a)
          [] o.k = "Enum"     -> ofEnum(a)
          [] o.k = "EnumItem" -> ofItem(a)
          [] o.k = "List"     -> {a}
          [] OTHER            -> ofMember(a)

----------------------------------------------------------------------------
(* Accessors of the capability views.                                      *)

\* Tags.GetTags of rbxapijson (part_000:516): a copy of the list
JsonGetTags(t) == [i \in 1..Len(t) |-> t[i]]

\* GetTags on the entity at address a: a fresh slice holding its tags
EntityGetTags(h, a) ==
    LET t == ListOf(h, h[a].Tags)
    IN  AllocList(h, "Tags", IF h[a].rep = "dump" THEN GetTags(t) ELSE JsonGetTags(t))

\* GetName of a class, member, enum or enum item
GetName(h, a) == h[a].Name

\* GetMemberType of a member
GetMemberType(h, m) == h[m].k

\* Root.GetClasses and Root.GetEnums: the pointers, in order, in a new list
GetClasses(h, r) == [i \in 1..Len(ListOf(h, h[r].Classes)) |-> ListOf(h, h[r].Classes)[i]]
GetEnums(h, r) == [i \in 1..Len(ListOf(h, h[r].Enums)) |-> ListOf(h, h[r].Enums)[i]]

\* Class.GetMembers: the member pointers, in order (a new list, read only here)
GetMembers(h, c) == [i \in 1..Len(ListOf(h, h[c].Members)) |-> ListOf(h, h[c].Members)[i]]

\* Enum.GetEnumItems: the item pointers, in order (a new list, read only here)
GetEnumItems(h, e) == [i \in 1..Len(ListOf(h, h[e].Items)) |-> ListOf(h, h[e].Items)[i]]

\* Function/Event/Callback.GetParameters: Parameters{List: &member.Parameters},
\* a pointer to the member's own slice
GetParameters(h, m) == h[m].Parameters

\* Parameter.GetDefault: the payload and whether a default is present
GetDefault(p) == IF p.HasDefault THEN <<p.Default, TRUE>> ELSE <<<<>>, FALSE>>

----------------------------------------------------------------------------
(* Copy: the deep copy of an entity (rbxapi.go; part_000 has the same      *)
(* methods line for line).  Each returns the heap after its allocations    *)
(* and the address of the copy.                                            *)

\* Property.Copy: cmember := *member; cmember.Tags = Tags(member.GetTags())
PropertyCopy(h, m) ==
    Only({Alloc(t.h, [h[m] EXCEPT !.Tags = t.a]) : t \in {EntityGetTags(h, m)}})

\* Function.Copy with the Parameters slice left shared
FunctionCopyShallow(h, m) ==
    Only({Alloc(t.h, [h[m] EXCEPT !.Tags = t.a]) : t \in {EntityGetTags(h, m)}})

\* Function.Copy: the struct, a new Parameters slice with the elements copied,
\* new Tags
FunctionCopy(h, m) ==
    Only({Only({Alloc(t.h, [h[m] EXCEPT !.Parameters = p.a, !.Tags = t.a])
        : t \in {EntityGetTags(p.h, m)}})
        : p \in {AllocList(h, "Parameters",
                           [i \in 1..Len(ListOf(h, h[m].Parameters))
                               |-> ListOf(h, h[m].Parameters)[i]])}})

\* Event.Copy
EventCopy(h, m) ==
    Only({Only({Alloc(t.h, [h[m] EXCEPT !.Parameters = p.a, !.Tags = t.a])
        : t \in {EntityGetTags(p.h, m)}})
        : p \in {AllocList(h, "Parameters",
                           [i \in 1..Len(ListOf(h, h[m].Parameters))
                               |-> ListOf(h, h[m].Parameters)[i]])}})

\* Callback.Copy
CallbackCopy(h, m) ==
    Only({Only({Alloc(t.h, [h[m] EXCEPT !.Parameters = p.a, !.Tags = t.a])
        : t \in {EntityGetTags(p.h, m)}})
        : p \in {AllocList(h, "Parameters",
                           [i \in 1..Len(ListOf(h, h[m].Parameters))
                               |-> ListOf(h, h[m].Parameters)[i]])}})

\* member.Copy(), dispatched on the member's concrete type
MemberCopy(h, m) ==
    CASE h[m].k = "Property" -> PropertyCopy(h, m)
      [] h[m].k = "Function" -> FunctionCopy(h, m)
      [] h[m].k = "Event"    -> EventCopy(h, m)
      [] h[m].k = "Callback" -> CallbackCopy(h, m)

\* EnumItem.Copy: citem := *item; citem.Tags = Tags(item.GetTags())
EnumItemCopy(h, i) ==
    Only({Alloc(t.h, [h[i] EXCEPT !.Tags = t.a]) : t \in {EntityGetTags(h, i)}})

\* The loop "for i, x := range list { clist[i] = x.Copy() }" over the
\* addresses as; as: the addresses of the copies.
RECURSIVE CopyAll(_, _, _)

\* Class.Copy: the struct, a new Members slice of member copies, new Tags
ClassCopy(h, c) ==
    Only({Only({Only({Alloc(t.h, [h[c] EXCEPT !.Members = l.a, !.Tags = t.a])
        : t  \in {EntityGetTags(l.h, c)}})
        : l  \in {AllocList(ms.h, "Members", ms.as)}})
        : ms \in {CopyAll(h, ListOf(h, h[c].Members), "Member")}})

\* Enum.Copy: the struct, a new Items slice of item copies, new Tags
EnumCopy(h, e) ==
    Only({Only({Only({Alloc(t.h, [h[e] EXCEPT !.Items = l.a, !.Tags = t.a])
        : t  \in {EntityGetTags(l.h, e)}})
        : l  \in {AllocList(is.h, "Items", is.as)}})
        : is \in {CopyAll(h, ListOf(h, h[e].Items), "EnumItem")}})

CopyAll(h, as, what) ==
    IF as = <<>> THEN [h |-> h, as |-> <<>>]
    ELSE Only({Only({[h |-> rest.h, as |-> <<one.a>> \o rest.as]
             : rest \in {CopyAll(one.h, Tail(as), what)}})
             : one  \in {CASE what = "Member"   -> MemberCopy(h, Head(as))
                           [] what = "EnumItem" -> EnumItemCopy(h, Head(as))
                           [] what = "Class"    -> ClassCopy(h, Head(as))
                           [] what = "Enum"     -> EnumCopy(h, Head(as))}})

\* Root.Copy: a new Root whose Classes and Enums hold copies
RootCopy(h, r) ==
    Only({Only({Only({Only({
        Alloc(el.h, [h[r] EXCEPT !.Classes = cl.a, !.Enums = el.a])
        : el \in {AllocList(es.h, "Enums", es.as)}})
        : es \in {CopyAll(cl.h, ListOf(h, h[r].Enums), "Enum")}})
        : cl \in {AllocList(cs.h, "Classes", cs.as)}})
        : cs \in {CopyAll(h, ListOf(h, h[r].Classes), "Class")}})

\* Copy() on the entity at address a, dispatched on its type
EntityCopy(h, a) ==
    CASE h[a].k = "Root"     -> RootCopy(h, a)
      [] h[a].k = "Class"    -> ClassCopy(h, a)
      [] h[a].k = "Enum"     -> EnumCopy(h, a)
      [] h[a].k = "EnumItem" -> EnumItemCopy(h, a)
      [] OTHER               -> MemberCopy(h, a)

----------------------------------------------------------------------------
(* Security read-out (rbxapi.go:144-205, 251, 306, 355; part_000:180, 228, *)
(* 283, 332).                                                              *)

\* "Security" and "security", the substrings getSecurity looks for
StrSecurity == <<"S", "e", "c", "u", "r", "i", "t", "y">>
StrSecurityLower == <<"s", "e", "c", "u", "r", "i", "t", "y">>

\* the prefix and suffix constants of Property.GetSecurity
WritePrefix == <<"S", "c", "r", "i", "p", "t", "W", "r", "i", "t", "e", "R", "e", "s", "t", "r", "i", "c", "t", "e", "d", ":", " ", "[">>
WriteSuffix == <<"]">>

\* whether a tag counts as security-related
IsSecurityTag(tag) == Contains(tag, StrSecurity) \/ Contains(tag, StrSecurityLower)

\* getSecurity: the first security-related tag, or ""
RECURSIVE getSecurity(_)
getSecurity(t) ==
    IF t = <<>> THEN <<>>
    ELSE IF IsSecurityTag(Head(t)) THEN Head(t)
    ELSE getSecurity(Tail(t))

\* The loop of rbxapidump's Property.GetSecurity from (1-based) index i on,
\* with the read and write contexts found so far.  The slice expression
\* tag[len(prefix) : len(tag)-len(suffix)] panics when its bounds cross.
RECURSIVE PropertySecurityLoop(_, _, _, _)
PropertySecurityLoop(t, i, read, write) ==
    IF i > Len(t) THEN [read |-> read, write |-> write, panic |-> FALSE]
    ELSE LET tag == t[i]
         IN  IF write = <<>> /\ HasPrefix(tag, WritePrefix)
             THEN IF Len(tag) - Len(WriteSuffix) < Len(WritePrefix)
                  THEN [read |-> read, write |-> write, panic |-> TRUE]
                  ELSE LET w == SubSeq(tag, Len(WritePrefix) + 1,
                                       Len(tag) - Len(WriteSuffix))
                       IN  IF read # <<>>
                           THEN [read |-> read, write |-> w, panic |-> FALSE]
                           ELSE PropertySecurityLoop(t, i + 1, read, w)
             ELSE IF read = <<>> /\ IsSecurityTag(tag)
                  THEN IF write # <<>>
                       THEN [read |-> tag, write |-> write, panic |-> FALSE]
                       ELSE PropertySecurityLoop(t, i + 1, tag, write)
                  ELSE PropertySecurityLoop(t, i + 1, read, write)

\* rbxapidump's Property.GetSecurity on a tag list
DumpPropertyGetSecurity(t) == PropertySecurityLoop(t, 1, <<>>, <<>>)

\* GetSecurity of the member at address m, through its own accessor: the
\* read and write contexts of a Property, the one context of any other member
\* (in the field read, with write left empty)
GetSecurity(h, m) ==
    LET o == h[m]
    IN  IF o.rep = "dump"
        THEN IF o.k = "Property"
             THEN DumpPropertyGetSecurity(ListOf(h, o.Tags))
             ELSE [read |-> getSecurity(ListOf(h, o.Tags)), write |-> <<>>,
                   panic |-> FALSE]
        ELSE IF o.k = "Property"
             THEN [read |-> o.ReadSecurity, write |-> o.WriteSecurity,
                   panic |-> FALSE]
             ELSE [read |-> o.Security, write |-> <<>>, panic |-> FALSE]

----------------------------------------------------------------------------
(* The bridge layer (patch.go:8-116): a generic entity, of either          *)
(* representation, becomes a new rbxapidump entity.                        *)

\* copyParameters that leaves Default and HasDefault at their zero values
copyParametersNoDefault(h, params) ==
    LET src == ListOf(h, params)
    IN  AllocList(h, "Parameters", [i \in 1..Len(src) |->
            Param(SetFromType(src[i].Type), src[i].Name, FALSE, <<>>)])

\* copyParameters: a new []Parameter read through GetLength, GetParameter,
\* GetType, GetName and GetDefault
copyParameters(h, params) ==
    LET src == ListOf(h, params)
    IN  AllocList(h, "Parameters", [i \in 1..Len(src) |->
            Param(SetFromType(src[i].Type), src[i].Name,
                  GetDefault(src[i])[2], GetDefault(src[i])[1])])

\* the type switch of copyMember: which case a member falls in.  The types
\* of the two packages have the methods of their member type; a member of a
\* foreign type has the methods its shape says, whatever GetMemberType
\* returns.
MemberCase(h, m) ==
    CASE h[m].rep = "foreign"              -> h[m].shape
      [] h[m].k = "Property"               -> "Property"
      [] h[m].k \in {"Function", "Callback"} -> "Function"
      [] h[m].k = "Event"                  -> "Event"
      [] OTHER                             -> "none"

\* copyMember that keeps the source's tag slice instead of a copy of it
copyMemberSharingTags(h, m) ==
    CASE MemberCase(h, m) = "Property" ->
             Alloc(h, DumpProperty(GetName(h, m), <<>>,
                                   copyType(h[m].ValueType), h[m].Tags))
      [] MemberCase(h, m) = "Function" /\ GetMemberType(h, m) \in {"Function", "Callback"} ->
             Only({Alloc(p.h, DumpFunction(GetMemberType(h, m), GetName(h, m), <<>>,
                                           copyType(h[m].ReturnType), p.a, h[m].Tags))
                 : p \in {copyParameters(h, GetParameters(h, m))}})
      [] MemberCase(h, m) = "Event" ->
             Only({Alloc(p.h, DumpEvent(GetName(h, m), <<>>, p.a, h[m].Tags))
                 : p \in {copyParameters(h, GetParameters(h, m))}})
      [] OTHER -> [h |-> h, a |-> Nil]

\* copyMember that makes a Function of every member with the methods of
\* rbxapi.Function, without a look at GetMemberType
copyMemberByShape(h, m) ==
    CASE MemberCase(h, m) = "Property" ->
             Only({Alloc(t.h, DumpProperty(GetName(h, m), <<>>,
                                           copyType(h[m].ValueType), t.a))
                 : t \in {EntityGetTags(h, m)}})
      [] MemberCase(h, m) = "Function" ->
             Only({Alloc(t.h, DumpFunction("Function", GetName(h, m), <<>>,
                                           DumpType(<<>>), Nil, t.a))
                 : t \in {EntityGetTags(h, m)}})
      [] MemberCase(h, m) = "Event" ->
             Only({Only({Alloc(t.h, DumpEvent(GetName(h, m), <<>>, p.a, t.a))
                 : t \in {EntityGetTags(p.h, m)}})
                 : p \in {copyParameters(h, GetParameters(h, m))}})
      [] OTHER -> [h |-> h, a |-> Nil]

\* copyMember: a deep copy of a generic rbxapi.Member, or nil
copyMember(h, m) ==
    CASE MemberCase(h, m) = "Property" ->
             Only({Alloc(t.h, DumpProperty(GetName(h, m), <<>>,
                                           copyType(h[m].ValueType), t.a))
                 : t \in {EntityGetTags(h, m)}})
      [] MemberCase(h, m) = "Function" /\ GetMemberType(h, m) = "Function" ->
             Only({Only({Alloc(t.h, DumpFunction("Function", GetName(h, m), <<>>,
                                                 copyType(h[m].ReturnType), p.a, t.a))
                 : t \in {EntityGetTags(p.h, m)}})
                 : p \in {copyParameters(h, GetParameters(h, m))}})
      [] MemberCase(h, m) = "Function" /\ GetMemberType(h, m) = "Callback" ->
             Only({Only({Alloc(t.h, DumpFunction("Callback", GetName(h, m), <<>>,
                                                 copyType(h[m].ReturnType), p.a, t.a))
                 : t \in {EntityGetTags(p.h, m)}})
                 : p \in {copyParameters(h, GetParameters(h, m))}})
      [] MemberCase(h, m) = "Event" ->
             Only({Only({Alloc(t.h, DumpEvent(GetName(h, m), <<>>, p.a, t.a))
                 : t \in {EntityGetTags(p.h, m)}})
                 : p \in {copyParameters(h, GetParameters(h, m))}})
      [] OTHER -> [h |-> h, a |-> Nil]

\* The loop of copyClass over the source members ms: each member that
\* converts gets the class name as its Class and is appended.
RECURSIVE copyClassMembers(_, _, _)
copyClassMembers(h, ms, className) ==
    IF ms = <<>> THEN [h |-> h, as |-> <<>>]
    ELSE Only({
             IF one.a = Nil THEN copyClassMembers(one.h, Tail(ms), className)
             ELSE Only({[h |-> rest.h, as |-> <<one.a>> \o rest.as]
                      : rest \in {copyClassMembers(
                                      [one.h EXCEPT ![one.a].Class = className],
                                      Tail(ms), className)}})
             : one \in {copyMember(h, Head(ms))}})

\* copyClass: a deep copy of a generic rbxapi.Class
copyClass(h, class) ==
    Only({Only({Only({
        Alloc(l.h, DumpClass(GetName(h, class), h[class].Superclass, l.a, t.a))
        : l  \in {AllocList(ms.h, "Members", ms.as)}})
        : ms \in {copyClassMembers(t.h, GetMembers(h, class), GetName(h, class))}})
        : t  \in {EntityGetTags(h, class)}})

\* copyEnumItem: a deep copy of a generic rbxapi.EnumItem; its Tags are the
\* slice that item.GetTags() returns
copyEnumItem(h, item) ==
    Only({Alloc(t.h, DumpEnumItem(<<>>, GetName(h, item), h[item].Value, t.a))
        : t \in {EntityGetTags(h, item)}})

\* The loop of copyEnum over the source items: each copy gets the enum name
\* as its Enum and is appended.
RECURSIVE copyEnumItems(_, _, _)
copyEnumItems(h, is, enumName) ==
    IF is = <<>> THEN [h |-> h, as |-> <<>>]
    ELSE Only({Only({[h |-> rest.h, as |-> <<one.a>> \o rest.as]
             : rest \in {copyEnumItems([one.h EXCEPT ![one.a].Enum = enumName],
                                       Tail(is), enumName)}})
             : one  \in {copyEnumItem(h, Head(is))}})

\* copyEnum: a deep copy of a generic rbxapi.Enum
copyEnum(h, enum) ==
    Only({Only({Only({
        Alloc(l.h, DumpEnum(GetName(h, enum), l.a, t.a))
        : l  \in {AllocList(is.h, "Items", is.as)}})
        : is \in {copyEnumItems(t.h, GetEnumItems(h, enum), GetName(h, enum))}})
        : t  \in {EntityGetTags(h, enum)}})

----------------------------------------------------------------------------
(* Patch actions (package patch, used through its interfaces).  An action  *)
(* is a record:                                                            *)
(*   caps    the interfaces its Go type satisfies, a subset of             *)
(*           {"Member", "Class", "EnumItem", "Enum"}                       *)
(*   type    "Add", "Remove" or "Change"               (GetType)           *)
(*   class, member, enum, item                                             *)
(*           address of the entity that GetClass, GetMember, GetEnum,      *)
(*           GetEnumItem return, or Nil                                    *)
(*   field   the field name of a Change                (GetField)          *)
(*   next    the payload of a Change, [t |-> its Go type, v |-> value]:    *)
(*           "string" (a string), "[]string" (address of a slice),         *)
(*           "int", "Type" (an rbxapi.Type), "Parameters" (address of a    *)
(*           parameter slice), "nil"                   (GetNext)           *)

NoPayload == [t |-> "nil", v |-> 0]

\* 1-based index of the first address in as whose entity satisfies
\* GetName() = name, or 0: the "for ... if x.Name == name" scans
FirstNamed(h, as, name) ==
    LET hits == {i \in 1..Len(as) : GetName(h, as[i]) = name}
    IN  IF hits = {} THEN 0 ELSE CHOOSE i \in hits : \A j \in hits : i <= j

\* 1-based index of the first member in as with the given name and member
\* type, or 0
FirstNamedOfType(h, as, name, mtype) ==
    LET hits == {i \in 1..Len(as) :
                     GetName(h, as[i]) = name /\ GetMemberType(h, as[i]) = mtype}
    IN  IF hits = {} THEN 0 ELSE CHOOSE i \in hits : \A j \in hits : i <= j

\* 1-based index of the last address in as whose entity has the name, or 0
LastNamed(h, as, name) ==
    LET hits == {i \in 1..Len(as) : GetName(h, as[i]) = name}
    IN  IF hits = {} THEN 0 ELSE CHOOSE i \in hits : \A j \in hits : i >= j

\* class.Tags = Tags(Tags(v).GetTags()): the entity at address a gets a new
\* Tags slice holding a copy of the payload slice v
ReplaceTags(h, a, v) ==
    Only({[t.h EXCEPT ![a].Tags = t.a]
        : t \in {AllocList(h, "Tags", GetTags(ListOf(h, v)))}})

\* One action of Property.Patch (patch.go:263-286)
PropertyPatchOne(h, m, action) ==
    IF action.type # "Change" THEN h
    ELSE CASE action.field = "Name" /\ action.next.t = "string" ->
                  [h EXCEPT ![m].Name = action.next.v]
           [] action.field = "ValueType" /\ action.next.t = "Type" ->
                  [h EXCEPT ![m].ValueType = SetFromType(action.next.v)]
           [] action.field = "ValueType" /\ action.next.t = "string" ->
                  [h EXCEPT ![m].ValueType = DumpType(action.next.v)]
           [] action.field = "Tags" /\ action.next.t = "[]string" ->
                  ReplaceTags(h, m, action.next.v)
           [] OTHER -> h

\* One action of Function.Patch (patch.go:288-315) and of Callback.Patch
\* (patch.go:339-366), which has the same body
FunctionPatchOne(h, m, action) ==
    IF action.type # "Change" THEN h
    ELSE CASE action.field = "Name" /\ action.next.t = "string" ->
                  [h EXCEPT ![m].Name = action.next.v]
           [] action.field = "ReturnType" /\ action.next.t = "Type" ->
                  [h EXCEPT ![m].ReturnType = SetFromType(action.next.v)]
           [] action.field = "ReturnType" /\ action.next.t = "string" ->
                  [h EXCEPT ![m].ReturnType = DumpType(action.next.v)]
           [] action.field = "Parameters" /\ action.next.t = "Parameters" ->
                  Only({[p.h EXCEPT ![m].Parameters = p.a]
                      : p \in {copyParameters(h, action.next.v)}})
           [] action.field = "Tags" /\ action.next.t = "[]string" ->
                  ReplaceTags(h, m, action.next.v)
           [] OTHER -> h

\* One action of Event.Patch (patch.go:317-337)
EventPatchOne(h, m, action) ==
    IF action.type # "Change" THEN h
    ELSE CASE action.field = "Name" /\ action.next.t = "string" ->
                  [h EXCEPT ![m].Name = action.next.v]
           [] action.field = "Parameters" /\ action.next.t = "Parameters" ->
                  Only({[p.h EXCEPT ![m].Parameters = p.a]
                      : p \in {copyParameters(h, action.next.v)}})
           [] action.field = "Tags" /\ action.next.t = "[]string" ->
                  ReplaceTags(h, m, action.next.v)
           [] OTHER -> h

\* EnumItem.Patch without the case "Value"
EnumItemPatchOneNoValue(h, item, action) ==
    IF action.type # "Change" THEN h
    ELSE CASE action.field = "Name" /\ action.next.t = "string" ->
                  [h EXCEPT ![item].Name = action.next.v]
           [] action.field = "Tags" /\ action.next.t = "[]string" ->
                  ReplaceTags(h, item, action.next.v)
           [] OTHER -> h

\* One action of EnumItem.Patch (patch.go:418-438)
EnumItemPatchOne(h, item, action) ==
    IF action.type # "Change" THEN h
    ELSE CASE action.field = "Name" /\ action.next.t = "string" ->
                  [h EXCEPT ![item].Name = action.next.v]
           [] action.field = "Value" /\ action.next.t = "int" ->
                  [h EXCEPT ![item].Value = action.next.v]
           [] action.field = "Tags" /\ action.next.t = "[]string" ->
                  ReplaceTags(h, item, action.next.v)
           [] OTHER -> h

\* Patch of a member or enum item: "for _, action := range actions"
RECURSIVE LeafPatch(_, _, _)
LeafPatch(h, a, actions) ==
    IF actions = <<>> THEN h
    ELSE Only({LeafPatch(h1, a, Tail(actions))
             : h1 \in {CASE h[a].k = "Property" ->
                                PropertyPatchOne(h, a, Head(actions))
                         [] h[a].k \in {"Function", "Callback"} ->
                                FunctionPatchOne(h, a, Head(actions))
                         [] h[a].k = "Event" ->
                                EventPatchOne(h, a, Head(actions))
                         [] h[a].k = "EnumItem" ->
                                EnumItemPatchOne(h, a, Head(actions))}})

\* member.(patch.Patcher): the rbxapidump members have a Patch method
IsPatcher(h, m) == h[m].rep = "dump"

\* The member that a Remove action would delete if the scan stopped at the
\* first member without looking at its name
MemberToRemoveFirst(h, members, amember) ==
    IF members = <<>> THEN 0 ELSE 1

\* The member that a Remove action deletes: the first one whose name is the
\* name of the action's member (patch.go:210-212)
MemberToRemove(h, members, amember) ==
    FirstNamed(h, members, GetName(h, amember))

\* The member that a Change action patches: the first one with the name and
\* the member type of the action's member (patch.go:224-227)
MemberToChange(h, members, amember) ==
    FirstNamedOfType(h, members, GetName(h, amember), GetMemberType(h, amember))

\* The member-action branch of Class.Patch for actions[i] (patch.go:208-235)
ClassPatchMember(h, class, actions, i) ==
    LET action  == actions[i]
        la      == h[class].Members
        members == ListOf(h, la)
    IN  CASE action.type = "Remove" ->
                 LET j == MemberToRemove(h, members, action.member)
                 IN  IF j = 0 THEN h ELSE SetList(h, la, RemoveAt(members, j))
          [] action.type = "Add" ->
                 Only({IF one.a = Nil THEN one.h
                       ELSE SetList(one.h, la, Append(members, one.a))
                     : one \in {copyMember(h, action.member)}})
          [] action.type = "Change" ->
                 LET j == MemberToChange(h, members, action.member)
                 IN  IF j = 0 \/ ~IsPatcher(h, members[j]) THEN h
                     ELSE LeafPatch(h, members[j], SubSeq(actions, i, i))
          [] OTHER -> h

\* Class.Patch's class fields without the check of the type assertion: a
\* payload of another type stores the zero value
ClassPatchClassZeroValue(h, class, action) ==
    IF action.type # "Change" THEN h
    ELSE CASE action.field = "Name" ->
                  [h EXCEPT ![class].Name =
                      IF action.next.t = "string" THEN action.next.v ELSE <<>>]
           [] action.field = "Superclass" ->
                  [h EXCEPT ![class].Superclass =
                      IF action.next.t = "string" THEN action.next.v ELSE <<>>]
           [] action.field = "Tags" /\ action.next.t = "[]string" ->
                  ReplaceTags(h, class, action.next.v)
           [] OTHER -> h

\* The class-action branch of Class.Patch for one action (patch.go:240-257)
ClassPatchClass(h, class, action) ==
    IF action.type # "Change" THEN h
    ELSE CASE action.field = "Name" /\ action.next.t = "string" ->
                  [h EXCEPT ![class].Name = action.next.v]
           [] action.field = "Superclass" /\ action.next.t = "string" ->
                  [h EXCEPT ![class].Superclass = action.next.v]
           [] action.field = "Tags" /\ action.next.t = "[]string" ->
                  ReplaceTags(h, class, action.next.v)
           [] OTHER -> h

\* Class.Patch from (1-based) index i of actions on (patch.go:204-261)
RECURSIVE ClassPatchFrom(_, _, _, _)
ClassPatchFrom(h, class, actions, i) ==
    IF i > Len(actions) THEN h
    ELSE Only({ClassPatchFrom(h1, class, actions, i + 1)
             : h1 \in {IF "Member" \in actions[i].caps
                          /\ actions[i].class # Nil /\ actions[i].member # Nil
                       THEN ClassPatchMember(h, class, actions, i)
                       ELSE IF "Class" \in actions[i].caps /\ actions[i].class # Nil
                       THEN ClassPatchClass(h, class, actions[i])
                       ELSE h}})

\* Class.Patch
ClassPatch(h, class, actions) == ClassPatchFrom(h, class, actions, 1)

\* The item-action branch of Enum.Patch for actions[i] (patch.go:372-394)
EnumPatchItem(h, enum, actions, i) ==
    LET action == actions[i]
        la     == h[enum].Items
        items  == ListOf(h, la)
    IN  CASE action.type = "Remove" ->
                 LET j == FirstNamed(h, items, GetName(h, action.item))
                 IN  IF j = 0 THEN h ELSE SetList(h, la, RemoveAt(items, j))
          [] action.type = "Add" ->
                 Only({SetList(one.h, la, Append(items, one.a))
                     : one \in {copyEnumItem(h, action.item)}})
          [] action.type = "Change" ->
                 LET j == FirstNamed(h, items, GetName(h, action.item))
                 IN  IF j = 0 THEN h
                     ELSE LeafPatch(h, items[j], SubSeq(actions, i, i))
          [] OTHER -> h

\* The enum-action branch of Enum.Patch for one action (patch.go:399-412)
EnumPatchEnum(h, enum, action) ==
    IF action.type # "Change" THEN h
    ELSE CASE action.field = "Name" /\ action.next.t = "string" ->
                  [h EXCEPT ![enum].Name = action.next.v]
           [] action.field = "Tags" /\ action.next.t = "[]string" ->
                  ReplaceTags(h, enum, action.next.v)
           [] OTHER -> h

\* Enum.Patch from (1-based) index i of actions on (patch.go:368-416)
RECURSIVE EnumPatchFrom(_, _, _, _)
EnumPatchFrom(h, enum, actions, i) ==
    IF i > Len(actions) THEN h
    ELSE Only({EnumPatchFrom(h1, enum, actions, i + 1)
             : h1 \in {IF "EnumItem" \in actions[i].caps
                          /\ actions[i].enum # Nil /\ actions[i].item # Nil
                       THEN EnumPatchItem(h, enum, actions, i)
                       ELSE IF "Enum" \in actions[i].caps /\ actions[i].enum # Nil
                       THEN EnumPatchEnum(h, enum, actions[i])
                       ELSE h}})

\* Enum.Patch
EnumPatch(h, enum, actions) == EnumPatchFrom(h, enum, actions, 1)

\* The class that an action would be routed to if the scan kept the last
\* match
ClassToPatchLast(h, classes, aclass) == LastNamed(h, classes, GetName(h, aclass))

\* The class that a class or member action is routed to: the first one of
\* the Root with the name of the action's class (patch.go:126-127, 140-141,
\* 152-153)
ClassToPatch(h, classes, aclass) == FirstNamed(h, classes, GetName(h, aclass))

\* The enum that an enum or item action is routed to (patch.go:165-166,
\* 179-180, 191-192)
EnumToPatch(h, enums, aenum) == FirstNamed(h, enums, GetName(h, aenum))

\* The class-action branch of Root.Patch for actions[i] (patch.go:137-158)
RootPatchClass(h, r, actions, i) ==
    LET action  == actions[i]
        la      == h[r].Classes
        classes == ListOf(h, la)
    IN  CASE action.type = "Remove" ->
                 LET j == ClassToPatch(h, classes, action.class)
                 IN  IF j = 0 THEN h ELSE SetList(h, la, RemoveAt(classes, j))
          [] action.type = "Add" ->
                 Only({SetList(one.h, la, Append(classes, one.a))
                     : one \in {copyClass(h, action.class)}})
          [] action.type = "Change" ->
                 LET j == ClassToPatch(h, classes, action.class)
                 IN  IF j = 0 THEN h
                     ELSE ClassPatch(h, classes[j], SubSeq(actions, i, i))
          [] OTHER -> h

\* The enum-action branch of Root.Patch for actions[i] (patch.go:176-197)
RootPatchEnum(h, r, actions, i) ==
    LET action == actions[i]
        la     == h[r].Enums
        enums  == ListOf(h, la)
    IN  CASE action.type = "Remove" ->
                 LET j == EnumToPatch(h, enums, action.enum)
                 IN  IF j = 0 THEN h ELSE SetList(h, la, RemoveAt(enums, j))
          [] action.type = "Add" ->
                 Only({SetList(one.h, la, Append(enums, one.a))
                     : one \in {copyEnum(h, action.enum)}})
          [] action.type = "Change" ->
                 LET j == EnumToPatch(h, enums, action.enum)
                 IN  IF j = 0 THEN h
                     ELSE EnumPatch(h, enums[j], SubSeq(actions, i, i))
          [] OTHER -> h

\* The body of the loop of Root.Patch with the class shape tried before the
\* member shape
RootPatchOneClassFirst(h, r, actions, i) ==
    LET action  == actions[i]
        classes == ListOf(h, h[r].Classes)
        enums   == ListOf(h, h[r].Enums)
    IN  IF "Class" \in action.caps /\ action.class # Nil
        THEN RootPatchClass(h, r, actions, i)
        ELSE IF "Member" \in action.caps /\ action.class # Nil /\ action.member # Nil
        THEN LET j == ClassToPatch(h, classes, action.class)
             IN  IF j = 0 THEN h
                 ELSE ClassPatch(h, classes[j], SubSeq(actions, i, i))
        ELSE IF "EnumItem" \in action.caps /\ action.enum # Nil /\ action.item # Nil
        THEN LET j == EnumToPatch(h, enums, action.enum)
             IN  IF j = 0 THEN h
                 ELSE EnumPatch(h, enums[j], SubSeq(actions, i, i))
        ELSE IF "Enum" \in action.caps /\ action.enum # Nil
        THEN RootPatchEnum(h, r, actions, i)
        ELSE h

\* The body of the loop of Root.Patch for actions[i] (patch.go:123-200)
RootPatchOne(h, r, actions, i) ==
    LET action  == actions[i]
        classes == ListOf(h, h[r].Classes)
        enums   == ListOf(h, h[r].Enums)
    IN  IF "Member" \in action.caps /\ action.class # Nil /\ action.member # Nil
        THEN LET j == ClassToPatch(h, classes, action.class)
             IN  IF j = 0 THEN h
                 ELSE ClassPatch(h, classes[j], SubSeq(actions, i, i))
        ELSE IF "Class" \in action.caps /\ action.class # Nil
        THEN RootPatchClass(h, r, actions, i)
        ELSE IF "EnumItem" \in action.caps /\ action.enum # Nil /\ action.item # Nil
        THEN LET j == EnumToPatch(h, enums, action.enum)
             IN  IF j = 0 THEN h
                 ELSE EnumPatch(h, enums[j], SubSeq(actions, i, i))
        ELSE IF "Enum" \in action.caps /\ action.enum # Nil
        THEN RootPatchEnum(h, r, actions, i)
        ELSE h

\* Root.Patch from (1-based) index i of actions on
RECURSIVE RootPatchFrom(_, _, _, _)
RootPatchFrom(h, r, actions, i) ==
    IF i > Len(actions) THEN h
    ELSE Only({RootPatchFrom(h1, r, actions, i + 1)
             : h1 \in {RootPatchOne(h, r, actions, i)}})

\* Root.Patch (patch.go:121-202): the heap after the actions were applied to
\* the Root at address r
RootPatch(h, r, actions) == RootPatchFrom(h, r, actions, 1)

\* Root.GetClass (rbxapi.go:36-43): the first class of the Root with the
\* name, or nil
RootGetClass(h, r, name) ==
    LET classes == ListOf(h, h[r].Classes)
        j == FirstNamed(h, classes, name)
    IN  IF j = 0 THEN Nil ELSE classes[j]

----------------------------------------------------------------------------
(* The entities the specifications start from.                             *)

NameA == <<"A">>
NameB == <<"B">>
NameE == <<"E">>
NameF == <<"F">>
NameI == <<"I">>
NameJ == <<"J">>
NameX == <<"X">>
NameY == <<"Y">>
NameZ == <<"Z">>
StrInt == <<"i", "n", "t">>
TypeInt == DumpType(StrInt)
TypeEnumE == DumpType(<<"E", "n", "u", "m", ":", "E">>)
JsonTypeInt == JsonType(<<>>, StrInt)
JsonTypeEnumF == JsonType(<<"E", "n", "u", "m">>, NameF)

ParamP == Param(TypeInt, <<"p">>, FALSE, <<>>)
JsonParamQ == Param(JsonTypeEnumF, <<"q">>, TRUE, <<"1">>)

PluginSecurity == <<"P", "l", "u", "g", "i", "n", "S", "e", "c", "u", "r", "i", "t", "y">>

\* A Root built with two classes named A: the first holds a Function and a
\* Property that share the name X.
RootTwoA ==
    DumpRoot(
        <<DumpClass(NameA, <<>>,
              <<DumpFunction("Function", NameX, NameA, TypeInt, <<ParamP>>, <<TagA>>),
                DumpProperty(NameX, NameA, TypeInt, <<TagA, TagB>>)>>,
              <<TagA>>),
          DumpClass(NameA, NameB,
              <<DumpProperty(NameY, NameA, TypeEnumE, <<>>)>>,
              <<TagB>>)>>,
        <<DumpEnum(NameE,
              <<DumpEnumItem(NameE, NameI, 0, <<>>),
                DumpEnumItem(NameE, NameJ, 1, <<TagA>>)>>,
              <<>>)>>)

\* A Root whose names are unique.
RootPlain ==
    DumpRoot(
        <<DumpClass(NameB, NameA,
              <<DumpEvent(NameY, NameB, <<ParamP>>, <<>>),
                DumpFunction("Callback", NameX, NameB, TypeInt, <<>>, <<TagB>>)>>,
              <<>>),
          DumpClass(NameA, <<>>,
              <<DumpProperty(NameX, NameA, TypeInt, <<PluginSecurity>>)>>,
              <<TagA, TagB>>)>>,
        <<DumpEnum(NameF, <<DumpEnumItem(NameF, NameI, 0, <<TagA>>)>>, <<TagB>>),
          DumpEnum(NameE, <<>>, <<>>)>>)

RootValues == <<RootTwoA, RootPlain>>

\* whether the classes of the root value rv have pairwise distinct names,
\* and its enums too
UniqueNames(rv) ==
    /\ NoDup([i \in 1..Len(rv.Classes) |-> rv.Classes[i].Name])
    /\ NoDup([i \in 1..Len(rv.Enums) |-> rv.Enums[i].Name])

\* The caller's class templates: one of each representation.
ClassTemplates ==
    <<DumpClass(NameA, <<>>,
          <<DumpProperty(NameX, NameA, TypeInt, <<TagB>>),
            DumpEvent(NameY, NameA, <<ParamP>>, <<TagA>>)>>,
          <<TagC>>),
      JsonClass(NameB, NameA,
          <<JsonFunction("Function", NameX, <<JsonParamQ>>, JsonTypeInt,
                         PluginSecurity, <<TagC>>)>>,
          <<TagA>>)>>

\* The caller's enum templates: one of each representation.
EnumTemplates ==
    <<DumpEnum(NameE, <<DumpEnumItem(NameE, NameI, 2, <<TagB>>)>>, <<TagC>>),
      JsonEnum(NameF, <<JsonEnumItem(NameZ, 3, <<TagC>>)>>, <<TagA>>)>>

\* A []string payload that repeats a label, and a parameter list payload
TagsPayload == <<TagA, TagA, TagB>>
ParametersPayload == <<JsonParamQ, ParamP>>

\* Store the caller's entities in h.  The result's pool names them:
\* classes, enums: the templates; members, items: the entities inside them;
\* tagList, parameters: the payload slices.
LoadPool(h) ==
    LET cs == LoadAll(h, ClassTemplates, "Class")
        es == LoadAll(cs.h, EnumTemplates, "Enum")
        tl == AllocList(es.h, "Tags", TagsPayload)
        pl == AllocList(tl.h, "Parameters", ParametersPayload)
        membersOf(i) == ListOf(pl.h, pl.h[cs.as[i]].Members)
        itemsOf(i)   == ListOf(pl.h, pl.h[es.as[i]].Items)
    IN  [h |-> pl.h,
         pool |-> [classes    |-> cs.as,
                   members    |-> membersOf(1) \o membersOf(2),
                   enums      |-> es.as,
                   items      |-> itemsOf(1) \o itemsOf(2),
                   tagList    |-> tl.a,
                   parameters |-> pl.a]]

----------------------------------------------------------------------------
(* Spec: a Root patched by the caller, one Root.Patch call per step, and   *)
(* the caller writing to its own entities between the calls.               *)

\* most operations in one behaviour
MaxSteps == 2

\* an action of package patch, by the interface it is made for
ClassAction(type, class, field, next) ==
    [caps |-> {"Class"}, type |-> type, class |-> class, member |-> Nil,
     enum |-> Nil, item |-> Nil, field |-> field, next |-> next]

MemberAction(type, class, member, field, next) ==
    [caps |-> {"Member", "Class"}, type |-> type, class |-> class,
     member |-> member, enum |-> Nil, item |-> Nil, field |-> field,
     next |-> next]

EnumAction(type, enum, field, next) ==
    [caps |-> {"Enum"}, type |-> type, class |-> Nil, member |-> Nil,
     enum |-> enum, item |-> Nil, field |-> field, next |-> next]

EnumItemAction(type, enum, item, field, next) ==
    [caps |-> {"EnumItem", "Enum"}, type |-> type, class |-> Nil,
     member |-> Nil, enum |-> enum, item |-> item, field |-> field,
     next |-> next]

\* payloads of a Change action
NextString(s) == [t |-> "string", v |-> s]
NextInt(n) == [t |-> "int", v |-> n]
NextType(typ) == [t |-> "Type", v |-> typ]
NextTags(a) == [t |-> "[]string", v |-> a]
NextParameters(a) == [t |-> "Parameters", v |-> a]

\* a change: a field name and a payload
Chg(field, next) == [field |-> field, next |-> next]

\* the changes tried on a class, a member, an enum and an enum item; each
\* list ends with a payload of the wrong type for its field
ClassChanges(p) ==
    <<Chg("Name", NextString(NameZ)), Chg("Superclass", NextString(NameZ)),
      Chg("Tags", NextTags(p.tagList)), Chg("Name", NextInt(7))>>

MemberChanges(p) ==
    <<Chg("Name", NextString(NameZ)), Chg("ValueType", NextType(JsonTypeEnumF)),
      Chg("ReturnType", NextString(NameZ)),
      Chg("Parameters", NextParameters(p.parameters)),
      Chg("Tags", NextTags(p.tagList)), Chg("Tags", NextString(NameZ))>>

EnumChanges(p) ==
    <<Chg("Name", NextString(NameZ)), Chg("Tags", NextTags(p.tagList)),
      Chg("Tags", NextInt(7))>>

EnumItemChanges(p) ==
    <<Chg("Name", NextString(NameZ)), Chg("Value", NextInt(7)),
      Chg("Tags", NextTags(p.tagList)), Chg("Value", NextString(NameZ))>>

\* the o-th operation over a list of changes: Remove, Add, then the changes
OpType(o) == IF o = 1 THEN "Remove" ELSE IF o = 2 THEN "Add" ELSE "Change"
OpField(changes, o) == IF o <= 2 THEN "" ELSE changes[o - 2].field
OpNext(changes, o) == IF o <= 2 THEN NoPayload ELSE changes[o - 2].next

\* the o-th operation on the c-th class template of the pool p, and likewise
\* for a member of a class, an enum and an item of an enum
ClassActionAt(p, c, o) ==
    ClassAction(OpType(o), p.classes[c],
                OpField(ClassChanges(p), o), OpNext(ClassChanges(p), o))

MemberActionAt(p, c, m, o) ==
    MemberAction(OpType(o), p.classes[c], p.members[m],
                 OpField(MemberChanges(p), o), OpNext(MemberChanges(p), o))

EnumActionAt(p, e, o) ==
    EnumAction(OpType(o), p.enums[e],
               OpField(EnumChanges(p), o), OpNext(EnumChanges(p), o))

EnumItemActionAt(p, e, i, o) ==
    EnumItemAction(OpType(o), p.enums[e], p.items[i],
                   OpField(EnumItemChanges(p), o), OpNext(EnumItemChanges(p), o))

Init ==
    /\ \E i \in 1..Len(RootValues) :
           LET r == LoadRoot(<<>>, RootValues[i])
               p == LoadPool(r.h)
           IN  /\ heap = p.h /\ root = r.a /\ pool = p.pool
               /\ origin = IF UniqueNames(RootValues[i]) THEN "unique"
                           ELSE "repeated"
    /\ res = Nil /\ steps = 0 /\ added = {}
    /\ last = NoOp
    /\ prev = heap
    /\ tags = <<>>

\* root.Patch([]patch.Action{action}), carrying the template tmpl
Patch(action, tmpl) ==
    /\ steps < MaxSteps
    /\ heap' = RootPatch(heap, root, <<action>>)
    /\ last' = [op |-> "Patch", arg |-> action]
    /\ prev' = heap
    /\ steps' = steps + 1
    /\ added' = IF action.type = "Add" THEN added \cup {tmpl} ELSE added
    /\ UNCHANGED <<root, pool, res, tags, origin>>

PatchClass ==
    \E c \in 1..Len(pool.classes), o \in 1..(2 + Len(ClassChanges(pool))) :
        Patch(ClassActionAt(pool, c, o), pool.classes[c])

PatchMember ==
    \E c \in 1..Len(pool.classes), m \in 1..Len(pool.members),
       o \in 1..(2 + Len(MemberChanges(pool))) :
        Patch(MemberActionAt(pool, c, m, o), pool.members[m])

PatchEnum ==
    \E e \in 1..Len(pool.enums), o \in 1..(2 + Len(EnumChanges(pool))) :
        Patch(EnumActionAt(pool, e, o), pool.enums[e])

PatchEnumItem ==
    \E e \in 1..Len(pool.enums), i \in 1..Len(pool.items),
       o \in 1..(2 + Len(EnumItemChanges(pool))) :
        Patch(EnumItemActionAt(pool, e, i, o), pool.items[i])

\* Writes the caller can make to an entity or slice it holds: its exported
\* fields and its slices are open to assignment, SetTag and UnsetTag.
Writes == {"Name", "Value", "SetTag", "UnsetTag", "Drop", "Param"}

\* a name and a label that no entity starts with
NameM == <<"M">>
TagM == <<"m">>
\* whether the write applies to the object at address x
CanWrite(h, x, how) ==
    CASE how = "Name"     -> h[x].k \notin {"List", "Root"}
      [] how = "Value"    -> h[x].k = "EnumItem"
      [] how = "SetTag"   -> h[x].k = "List" /\ h[x].of = "Tags"
      [] how = "UnsetTag" -> h[x].k = "List" /\ h[x].of = "Tags" /\ h[x].v # <<>>
      [] how = "Drop"     -> h[x].k = "List" /\ h[x].of # "Tags" /\ h[x].v # <<>>
      [] how = "Param"    -> h[x].k = "List" /\ h[x].of = "Parameters"
                             /\ h[x].v # <<>>

\* the heap after the write to the object at address x:
\*   Name, Value   e.Name = NameM, item.Value++
\*   SetTag        e.SetTag(TagM)
\*   UnsetTag      e.UnsetTag(e.Tags[0])
\*   Drop          list = list[1:]
\*   Param         m.Parameters[0].Name = TagM
Write(h, x, how) ==
    CASE how = "Name"     -> [h EXCEPT ![x].Name = NameM]
      [] how = "Value"    -> [h EXCEPT ![x].Value = @ + 1]
      [] how = "SetTag"   -> SetList(h, x, SetTag(ListOf(h, x), <<TagM>>))
      [] how = "UnsetTag" -> SetList(h, x, UnsetTag(ListOf(h, x), <<ListOf(h, x)[1]>>))
      [] how = "Drop"     -> SetList(h, x, Tail(ListOf(h, x)))
      [] how = "Param"    -> SetList(h, x, [ListOf(h, x) EXCEPT ![1].Name = TagM])

\* every address reachable from the caller's entities
PoolReach(h, p) ==
    UNION {Reach(h, a) : a \in Range(p.classes) \cup Range(p.enums)}
    \cup {p.tagList, p.parameters}

\* The caller writes to one of its own entities.
MutateTemplate ==
    /\ steps < MaxSteps
    /\ \E x \in PoolReach(heap, pool), how \in Writes :
           /\ CanWrite(heap, x, how)
           /\ heap' = Write(heap, x, how)
           /\ last' = [op |-> "Mutate", arg |-> [x |-> x, how |-> how]]
    /\ prev' = heap
    /\ steps' = steps + 1
    /\ UNCHANGED <<root, pool, res, added, tags, origin>>

Next == PatchClass \/ PatchMember \/ PatchEnum \/ PatchEnumItem \/ MutateTemplate

Spec == Init /\ [][Next]_vars

----------------------------------------------------------------------------
(* Claims on Root.Patch, stated over the heap before (prev) and after      *)
(* (heap) the last operation.  The lookups below are the specification's:  *)
(* a class, enum or enum item is found by its name, a member by its name   *)
(* and member type, and the first match in list order is the target.       *)

\* the indices of the entities of as that have the name
NamedAt(h, as, name) == {i \in 1..Len(as) : h[as[i]].Name = name}

\* the indices of the members of as that have the name and the member type
NamedOfTypeAt(h, as, name, mtype) ==
    {i \in 1..Len(as) : h[as[i]].Name = name /\ h[as[i]].k = mtype}

\* the least index of a non-empty set of indices
Least(hits) == CHOOSE i \in hits : \A j \in hits : i <= j

\* the first entity of as at one of the indices, or Nil
FirstAt(as, hits) == IF hits = {} THEN Nil ELSE as[Least(hits)]

ClassesOf(h) == ListOf(h, h[root].Classes)
EnumsOf(h) == ListOf(h, h[root].Enums)

\* the class, and the enum, that an action names, in the heap h
ActionClass(h, action) ==
    FirstAt(ClassesOf(h), NamedAt(h, ClassesOf(h), h[action.class].Name))
ActionEnum(h, action) ==
    FirstAt(EnumsOf(h), NamedAt(h, EnumsOf(h), h[action.enum].Name))

\* the entity of the Root that an action targets, in the heap h, or Nil
Target(h, action) ==
    IF "Member" \in action.caps
    THEN IF ActionClass(h, action) = Nil THEN Nil
         ELSE LET ms == ListOf(h, h[ActionClass(h, action)].Members)
              IN  FirstAt(ms, NamedOfTypeAt(h, ms, h[action.member].Name,
                                            h[action.member].k))
    ELSE IF "Class" \in action.caps THEN ActionClass(h, action)
    ELSE IF "EnumItem" \in action.caps
    THEN IF ActionEnum(h, action) = Nil THEN Nil
         ELSE LET is == ListOf(h, h[ActionEnum(h, action)].Items)
              IN  FirstAt(is, NamedAt(h, is, h[action.item].Name))
    ELSE ActionEnum(h, action)

\* the last operation was Root.Patch with an action of one of the types
Patched(types) == last.op = "Patch" /\ last.arg.type \in types

\* the last operation was Root.Patch with a class action of one of the types,
\* and the Root held two or more classes with the name the action targets
PatchedOneOfTwoClasses(types) ==
    /\ Patched(types)
    /\ last.arg.caps = {"Class"}
    /\ Cardinality(NamedAt(prev, ClassesOf(prev), prev[last.arg.class].Name)) >= 2

\* C1: in a Root with two classes of one name GetClass returns the first of
\* them, a Remove class action deletes the first and only it, and a Change
\* class action changes the first and leaves every other class as it was.
C1_FirstMatch ==
    /\ \A i \in 1..Len(ClassesOf(heap)) :
           LET name == heap[ClassesOf(heap)[i]].Name
           IN  RootGetClass(heap, root, name)
                   = FirstAt(ClassesOf(heap), NamedAt(heap, ClassesOf(heap), name))
    /\ PatchedOneOfTwoClasses({"Remove", "Change"}) =>
           LET pc    == ClassesOf(prev)
               first == Least(NamedAt(prev, pc, prev[last.arg.class].Name))
           IN  /\ ClassesOf(heap) = IF last.arg.type = "Remove"
                                    THEN RemoveAt(pc, first) ELSE pc
               /\ \A i \in 1..Len(pc) :
                      i # first => ViewClass(heap, pc[i]) = ViewClass(prev, pc[i])
               /\ (last.arg.type = "Change" /\ last.arg.field = "Name"
                   /\ last.arg.next.t = "string")
                      => heap[pc[first]].Name = last.arg.next.v

\* C1 witness: a Change class action renamed the first of two classes that
\* had the same name.
C1_Witness ==
    /\ PatchedOneOfTwoClasses({"Change"})
    /\ last.arg.field = "Name"
    /\ heap # prev

\* C2 as stated: a Change or Remove action whose target is not in the Root
\* leaves the Root as it was, field for field.
C2_NoOpOnMissingTarget ==
    (Patched({"Change", "Remove"}) /\ Target(prev, last.arg) = Nil)
        => ViewRoot(heap, root) = ViewRoot(prev, root)

\* C2 failing input: a Remove member action whose member is in no class of
\* the Root under the name and member type it carries, applied to a class
\* that holds a member of that name.
C2_FailingInput ==
    /\ Patched({"Remove"})
    /\ "Member" \in last.arg.caps
    /\ Target(prev, last.arg) = Nil
    /\ ViewRoot(heap, root) # ViewRoot(prev, root)

\* C3 as stated: a Remove member action deletes the first member of the
\* class with the name and the member type of the action's member, and no
\* other member.
C3_RemoveMatchesNameAndKind ==
    (/\ Patched({"Remove"})
     /\ "Member" \in last.arg.caps
     /\ ActionClass(prev, last.arg) # Nil)
    => LET class == ActionClass(prev, last.arg)
           pm    == ListOf(prev, prev[class].Members)
           hits  == NamedOfTypeAt(prev, pm, prev[last.arg.member].Name,
                                  prev[last.arg.member].k)
       IN  ListOf(heap, heap[class].Members)
               = IF hits = {} THEN pm ELSE RemoveAt(pm, Least(hits))

\* C3 failing input: a Remove member action carrying a Property named X,
\* applied to a class whose first member named X is a Function.
C3_FailingInput ==
    /\ Patched({"Remove"})
    /\ "Member" \in last.arg.caps
    /\ ActionClass(prev, last.arg) # Nil
    /\ LET pm   == ListOf(prev, prev[ActionClass(prev, last.arg)].Members)
           hits == NamedAt(prev, pm, prev[last.arg.member].Name)
       IN  /\ hits # {}
           /\ prev[pm[Least(hits)]].k # prev[last.arg.member].k
           /\ pm[Least(hits)]
                  \notin Range(ListOf(heap, heap[ActionClass(prev, last.arg)].Members))

\* C4 as stated: after a Change of the field Tags with a []string payload
\* the target's tags are the payload's labels with duplicates removed.
C4_TagsReplacementDeduplicated ==
    (/\ Patched({"Change"})
     /\ last.arg.field = "Tags"
     /\ last.arg.next.t = "[]string"
     /\ Target(prev, last.arg) # Nil)
    => LET t == ListOf(heap, heap[Target(prev, last.arg)].Tags)
       IN  /\ NoDup(t)
           /\ t = SetTag(<<>>, ListOf(prev, last.arg.next.v))

\* C4 failing input: a Change of Tags whose payload repeats a label reached
\* its target, whose tags repeat the label afterwards.
C4_FailingInput ==
    /\ Patched({"Change"})
    /\ last.arg.field = "Tags"
    /\ last.arg.next.t = "[]string"
    /\ Target(prev, last.arg) # Nil
    /\ ~NoDup(ListOf(prev, last.arg.next.v))
    /\ ~NoDup(ListOf(heap, heap[Target(prev, last.arg)].Tags))

\* C8: once an Add action has carried a template, a write to anything the
\* caller holds leaves the Root as it was, and a Root.Patch call leaves every
\* template that was added as it was.
C8_AddNeverAliasesTemplate ==
    added # {} =>
        /\ last.op = "Mutate" => ViewRoot(heap, root) = ViewRoot(prev, root)
        /\ last.op = "Patch" =>
               \A t \in added : View(heap, t) = View(prev, t)

\* C8 witness: after an Add the caller changed something reachable from the
\* template that was added.
C8_Witness ==
    /\ last.op = "Mutate"
    /\ \E t \in added : last.arg.x \in Reach(prev, t)
    /\ heap # prev

\* the names of the entities at the addresses as, in order
NamesOf(h, as) == [i \in 1..Len(as) |-> h[as[i]].Name]

\* C14 as stated: in a Root that started with pairwise distinct class names
\* and enum names, no two classes and no two enums share a name after any
\* sequence of Root.Patch calls.
C14_NamesStayUnique ==
    origin = "unique" =>
        /\ NoDup(NamesOf(heap, ClassesOf(heap)))
        /\ NoDup(NamesOf(heap, EnumsOf(heap)))

\* C14 failing input: an Add class action whose template has the name of a
\* class of the Root, or a Change of the Name of a class to the name of
\* another, was applied to a Root without repeated names.
C14_FailingInput ==
    /\ origin = "unique"
    /\ Patched({"Add", "Change"})
    /\ last.arg.caps = {"Class"}
    /\ NoDup(NamesOf(prev, ClassesOf(prev)))
    /\ ~NoDup(NamesOf(heap, ClassesOf(heap)))

\* the last operation was Root.Patch with a Change of the field Value of an
\* enum item that the Root holds, carrying an integer
PatchedItemValue ==
    /\ Patched({"Change"})
    /\ "EnumItem" \in last.arg.caps
    /\ last.arg.field = "Value"
    /\ last.arg.next.t = "int"
    /\ Target(prev, last.arg) # Nil

\* C16: a Change of the field Value of an existing enum item with an integer
\* payload v sets the value of the first item of the enum with the name to v
\* and leaves everything else of the Root as it was.
C16_ItemValueChange ==
    PatchedItemValue =>
        /\ heap[Target(prev, last.arg)].Value = last.arg.next.v
        /\ ViewRoot(heap, root)
               = ViewRoot([prev EXCEPT ![Target(prev, last.arg)].Value = last.arg.next.v],
                          root)

\* C16 witness: the enum held two items with the name, and the value of the
\* first of them changed.
C16_Witness ==
    /\ PatchedItemValue
    /\ LET is == ListOf(prev, prev[ActionEnum(prev, last.arg)].Items)
       IN  Cardinality(NamedAt(prev, is, prev[last.arg.item].Name)) >= 2
    /\ prev[Target(prev, last.arg)].Value # last.arg.next.v
    /\ heap[Target(prev, last.arg)].Value = last.arg.next.v

----------------------------------------------------------------------------
(* SpecBridge: one member of either representation, inside a class of its  *)
(* representation, handed to copyMember or to copyClass.                   *)

\* longest tag list of a source member
MaxBridgeTags == 2

SecurityNone == <<"N", "o", "n", "e">>
WriteRestricted == WritePrefix \o PluginSecurity \o WriteSuffix

\* tags a source member may carry, security-related and not
BridgeLabels == {TagA, PluginSecurity, WriteRestricted}

\* values of the security fields of an rbxapijson member
Securities == {<<>>, SecurityNone, PluginSecurity}

MemberTypes == {"Property", "Function", "Event", "Callback"}

\* a member of a type of neither package: it satisfies rbxapi.Member and
\* none of rbxapi.Property, rbxapi.Function, rbxapi.Event
ForeignMember(name, t) ==
    [k |-> "Other", rep |-> "foreign", shape |-> "none", Name |-> name,
     Tags |-> t]

\* a member of a type of neither package that has the methods of
\* rbxapi.Function and whose GetMemberType returns mtype
ForeignFunction(mtype, name, t) ==
    [k |-> mtype, rep |-> "foreign", shape |-> "Function", Name |-> name,
     Tags |-> t]

\* the foreign members a source class may hold
ForeignMembers ==
    {ForeignMember(NameZ, <<TagA>>), ForeignFunction("Other", NameZ, <<TagA>>),
     ForeignFunction("Method", NameZ, <<>>)}

ParamWithDefault == Param(TypeEnumE, <<"q">>, TRUE, <<"1">>)
JsonParamNoDefault == Param(JsonTypeInt, <<"p">>, FALSE, <<>>)

\* the source member of the given representation and member type
SourceMember(rep, mtype, t, read, write) ==
    IF rep = "dump"
    THEN CASE mtype = "Property" -> DumpProperty(NameX, NameA, TypeEnumE, t)
           [] mtype = "Event"    -> DumpEvent(NameX, NameA, <<ParamP>>, t)
           [] OTHER -> DumpFunction(mtype, NameX, NameA, TypeInt, <<ParamP>>, t)
    ELSE CASE mtype = "Property" -> JsonProperty(NameX, JsonTypeEnumF, read, write, t)
           [] mtype = "Event"    -> JsonEvent(NameX, <<JsonParamQ>>, read, t)
           [] OTHER -> JsonFunction(mtype, NameX, <<JsonParamQ>>, JsonTypeInt, read, t)

\* the class of the member's representation that holds the member, followed
\* by a member of a foreign type and an Event with two parameters
SourceClass(rep, member, foreign) ==
    IF rep = "dump"
    THEN DumpClass(NameA, NameB,
             <<member, foreign,
               DumpEvent(NameY, NameA, <<ParamP, ParamWithDefault>>, <<TagB, TagA>>)>>,
             <<TagB>>)
    ELSE JsonClass(NameA, NameB,
             <<member, foreign,
               JsonEvent(NameY, <<JsonParamQ, JsonParamNoDefault>>, <<>>, <<TagB, TagA>>)>>,
             <<TagB>>)

BridgeInit ==
    /\ \E rep \in {"dump", "json"}, mtype \in MemberTypes,
          t \in SeqsOf(BridgeLabels, 0, MaxBridgeTags),
          read \in Securities, write \in Securities,
          foreign \in ForeignMembers :
           /\ rep = "dump" => read = <<>>
           /\ (rep = "dump" \/ mtype # "Property") => write = <<>>
           /\ LET c == LoadClass(<<>>, SourceClass(rep,
                                     SourceMember(rep, mtype, t, read, write),
                                     foreign))
              IN  /\ heap = c.h
                  /\ pool = [class |-> c.a, member |-> ListOf(c.h, c.h[c.a].Members)[1]]
    /\ root = Nil /\ res = Nil /\ steps = 0 /\ added = {}
    /\ last = NoOp
    /\ prev = heap
    /\ tags = <<>> /\ origin = "none"

\* copyMember(member): res is the new member
BridgeMember ==
    /\ steps = 0
    /\ \E r \in {copyMember(heap, pool.member)} :
           heap' = r.h /\ res' = r.a
    /\ last' = [op |-> "copyMember", arg |-> pool.member]
    /\ prev' = heap
    /\ steps' = 1
    /\ UNCHANGED <<root, pool, added, tags, origin>>

\* copyClass(class): res is the new class
BridgeClass ==
    /\ steps = 0
    /\ \E r \in {copyClass(heap, pool.class)} :
           heap' = r.h /\ res' = r.a
    /\ last' = [op |-> "copyClass", arg |-> pool.class]
    /\ prev' = heap
    /\ steps' = 1
    /\ UNCHANGED <<root, pool, added, tags, origin>>

\* copyMember(member) for one of the other members of the class: res is the
\* new member, or Nil
BridgeOtherMember ==
    /\ steps = 0
    /\ \E i \in 2..Len(ListOf(heap, heap[pool.class].Members)) :
         \E r \in {copyMember(heap, ListOf(heap, heap[pool.class].Members)[i])} :
           /\ heap' = r.h /\ res' = r.a
           /\ last' = [op |-> "copyOtherMember",
                       arg |-> ListOf(heap, heap[pool.class].Members)[i]]
    /\ prev' = heap
    /\ steps' = 1
    /\ UNCHANGED <<root, pool, added, tags, origin>>

\* Class.Patch on the class that copyClass made, with one Add action that
\* carries a member of the source class
BridgeAdd ==
    /\ last.op = "copyClass"
    /\ \E i \in 1..Len(ListOf(heap, heap[pool.class].Members)) :
         LET m == ListOf(heap, heap[pool.class].Members)[i]
         IN  /\ heap' = ClassPatch(heap, res,
                            <<MemberAction("Add", pool.class, m, "", NoPayload)>>)
             /\ last' = [op |-> "Add", arg |-> m]
    /\ prev' = heap
    /\ steps' = steps + 1
    /\ UNCHANGED <<root, pool, res, added, tags, origin>>

BridgeNext == BridgeMember \/ BridgeClass \/ BridgeOtherMember \/ BridgeAdd

SpecBridge == BridgeInit /\ [][BridgeNext]_vars

\* the member that the last bridge call made from the source member
Bridged ==
    IF last.op = "copyMember" THEN res
    ELSE ListOf(heap, heap[res].Members)[1]

\* C10 as stated: the member made by the bridge reports through GetSecurity
\* the security contexts that the source member reports through its own.
C10_BridgePreservesSecurity ==
    (/\ last.op \in {"copyMember", "copyClass"}
     /\ ~GetSecurity(prev, pool.member).panic)
    => GetSecurity(heap, Bridged) = GetSecurity(prev, pool.member)

\* C10 failing input: an rbxapijson member with a security context in its
\* Security or ReadSecurity field went through the bridge.
C10_FailingInput ==
    /\ last.op \in {"copyMember", "copyClass"}
    /\ prev[pool.member].rep = "json"
    /\ GetSecurity(prev, pool.member).read = PluginSecurity
    /\ GetSecurity(heap, Bridged).read = <<>>

----------------------------------------------------------------------------
(* SpecCopy: Copy() on one entity of the heap, then writes and Patch calls *)
(* on the copy and on the original.                                        *)

\* the entities of the heap: every object that is not a slice
Entities(h) == {a \in 1..Len(h) : h[a].k # "List"}

\* Patch on the entity at address a, dispatched on its type
EntityPatch(h, a, actions) ==
    CASE h[a].k = "Root"  -> RootPatch(h, a, actions)
      [] h[a].k = "Class" -> ClassPatch(h, a, actions)
      [] h[a].k = "Enum"  -> EnumPatch(h, a, actions)
      [] OTHER            -> LeafPatch(h, a, actions)

CopyInit ==
    /\ \E i \in 1..Len(RootValues) :
           LET r == LoadRoot(<<>>, RootValues[i])
               p == LoadPool(r.h)
           IN  heap = p.h /\ root = r.a /\ pool = p.pool
    /\ res = [src |-> Nil, cp |-> Nil]
    /\ steps = 0 /\ added = {}
    /\ last = NoOp
    /\ prev = heap
    /\ tags = <<>> /\ origin = "none"

\* cp := src.Copy()
CopyEntity ==
    /\ steps = 0
    /\ \E src \in Entities(heap) :
           /\ \E r \in {EntityCopy(heap, src)} :
                  heap' = r.h /\ res' = [src |-> src, cp |-> r.a]
           /\ last' = [op |-> "Copy", arg |-> src]
    /\ prev' = heap
    /\ steps' = 1
    /\ UNCHANGED <<root, pool, added, tags, origin>>

\* A write to the copy (side "cp") or to the original (side "src"), at any
\* depth.
WriteEntity ==
    /\ 0 < steps /\ steps < MaxSteps
    /\ \E side \in {"cp", "src"} :
       \E x \in Reach(heap, res[side]), how \in Writes :
           /\ CanWrite(heap, x, how)
           /\ heap' = Write(heap, x, how)
           /\ last' = [op |-> "Write", side |-> side, arg |-> [x |-> x, how |-> how]]
    /\ prev' = heap
    /\ steps' = steps + 1
    /\ UNCHANGED <<root, pool, res, added, tags, origin>>

\* e.Patch([]patch.Action{action}) on the copy or on the original
PatchSide(side, action) ==
    /\ heap[res[side]].rep = "dump"
    /\ heap' = EntityPatch(heap, res[side], <<action>>)
    /\ last' = [op |-> "Patch", side |-> side, arg |-> action]

PatchEntity ==
    /\ 0 < steps /\ steps < MaxSteps
    /\ \E side \in {"cp", "src"} :
          \/ \E c \in 1..Len(pool.classes),
                o \in 1..(2 + Len(ClassChanges(pool))) :
                 PatchSide(side, ClassActionAt(pool, c, o))
          \/ \E c \in 1..Len(pool.classes), m \in 1..Len(pool.members),
                o \in 1..(2 + Len(MemberChanges(pool))) :
                 PatchSide(side, MemberActionAt(pool, c, m, o))
          \/ \E e \in 1..Len(pool.enums),
                o \in 1..(2 + Len(EnumChanges(pool))) :
                 PatchSide(side, EnumActionAt(pool, e, o))
          \/ \E e \in 1..Len(pool.enums), i \in 1..Len(pool.items),
                o \in 1..(2 + Len(EnumItemChanges(pool))) :
                 PatchSide(side, EnumItemActionAt(pool, e, i, o))
    /\ prev' = heap
    /\ steps' = steps + 1
    /\ UNCHANGED <<root, pool, res, added, tags, origin>>

CopyNext == CopyEntity \/ WriteEntity \/ PatchEntity

SpecCopy == CopyInit /\ [][CopyNext]_vars

\* the side that the last write or Patch call left alone
OtherSide == IF last.side = "cp" THEN "src" ELSE "cp"

\* C9: Copy() returns an entity equal to the original field for field and
\* leaves the original as it was; afterwards a write or a Patch call on
\* either of the two leaves the other as it was.
C9_CopyIndependent ==
    /\ last.op = "Copy" =>
           /\ View(heap, res.cp) = View(prev, res.src)
           /\ View(heap, res.src) = View(prev, res.src)
    /\ last.op \in {"Write", "Patch"} =>
           View(heap, res[OtherSide]) = View(prev, res[OtherSide])

\* C9 witness: the parameter list of a Function inside a copied Class or Root
\* was written to.
C9_Witness ==
    /\ last.op = "Write"
    /\ last.side = "cp"
    /\ heap[res.cp].k \in {"Class", "Root"}
    /\ heap[last.arg.x].k = "List"
    /\ heap[last.arg.x].of = "Parameters"
    /\ View(heap, res.cp) # View(prev, res.cp)

----------------------------------------------------------------------------
(* SpecType: one Type of either representation handed to copyType.         *)

\* longest category and name of an rbxapijson source Type; an rbxapidump
\* source holds a packed string of up to twice as many characters
MaxTypeLen == 2

\* the characters of a source Type
TypeChars == {":", "a"}

TypeInit ==
    /\ \E rep \in {"dump", "json"},
          c \in SeqsOf(TypeChars, 0, MaxTypeLen),
          n \in SeqsOf(TypeChars, 0, MaxTypeLen) :
           pool = IF rep = "dump" THEN DumpType(c \o n) ELSE JsonType(c, n)
    /\ res = DumpType(<<>>)
    /\ heap = <<>> /\ root = Nil /\ steps = 0 /\ added = {}
    /\ last = NoOp
    /\ prev = heap
    /\ tags = <<>> /\ origin = "none"

\* t := copyType(typ)
BridgeType ==
    /\ steps = 0
    /\ res' = copyType(pool)
    /\ last' = [op |-> "copyType", arg |-> pool]
    /\ steps' = 1
    /\ UNCHANGED <<heap, root, pool, added, prev, tags, origin>>

\* t.SetFromType(typ) on a Type that holds a value already
SetType ==
    /\ steps = 1
    /\ \E src \in {pool, res, JsonTypeEnumF} :
           /\ res' = SetFromType(src)
           /\ last' = [op |-> "SetFromType", arg |-> src]
    /\ steps' = 2
    /\ UNCHANGED <<heap, root, pool, added, prev, tags, origin>>

TypeNext == BridgeType \/ SetType

SpecType == TypeInit /\ [][TypeNext]_vars

\* C11 as stated: the Type made by copyType or SetFromType reports the
\* category and the name that the source Type reports.
C11_TypeBridgeLossless ==
    last.op \in {"copyType", "SetFromType"} =>
        /\ TypeGetCategory(res) = TypeGetCategory(last.arg)
        /\ TypeGetName(res) = TypeGetName(last.arg)

\* C11 failing input: an rbxapijson Type with an empty category and a name
\* that contains ':' went through copyType, and the result reports a
\* different name.
C11_FailingInput ==
    /\ last.op = "copyType"
    /\ last.arg.rep = "json"
    /\ last.arg.Category = <<>>
    /\ Contains(last.arg.Name, Colon)
    /\ TypeGetName(res) # last.arg.Name

\* what C12 compares of a parameter: its name and what GetDefault returns
ParameterSummary(p) == [Name |-> p.Name, Default |-> GetDefault(p)]

\* what C12 compares of the member at address m: name, member type, tags
\* and, of a member with parameters, the summary of each parameter in order
MemberSummary(h, m) ==
    [Name |-> h[m].Name, k |-> h[m].k, Tags |-> ListOf(h, h[m].Tags),
     Parameters |-> IF HasParameters(h[m])
                    THEN [i \in 1..Len(ListOf(h, h[m].Parameters)) |->
                             ParameterSummary(ListOf(h, h[m].Parameters)[i])]
                    ELSE <<>>]

\* the members of the class at address c, in order
MembersOf(h, c) == ListOf(h, h[c].Members)

\* the members of as whose member type is one of the four recognised kinds
Recognised(h, as) ==
    FilterSeq(as, {m \in Range(as) : h[m].k \in MemberTypes})

\* C12: the class made by copyClass has the name, the superclass and the
\* tags of the source class, and its members are the source members of a
\* recognised kind, in source order, each with the same name, member type,
\* tags and parameters (names and defaults).
C12_ClassBridgePreservesStructure ==
    last.op = "copyClass" =>
        LET src == Recognised(prev, MembersOf(prev, pool.class))
            dst == MembersOf(heap, res)
        IN  /\ heap[res].Name = prev[pool.class].Name
            /\ heap[res].Superclass = prev[pool.class].Superclass
            /\ ListOf(heap, heap[res].Tags) = ListOf(prev, prev[pool.class].Tags)
            /\ Len(dst) = Len(src)
            /\ \A i \in 1..Len(src) :
                   MemberSummary(heap, dst[i]) = MemberSummary(prev, src[i])

\* C12 witness: copyClass ran on an rbxapijson class that held a member of
\* a foreign type and a member with two parameters, one with a default; the
\* new class holds one member less than the source.
C12_Witness ==
    /\ last.op = "copyClass"
    /\ prev[pool.class].rep = "json"
    /\ Len(MembersOf(heap, res)) + 1 = Len(MembersOf(prev, pool.class))
    /\ \E i \in 1..Len(MembersOf(heap, res)) :
           LET m == MembersOf(heap, res)[i]
           IN  /\ HasParameters(heap[m])
               /\ Len(ListOf(heap, heap[m].Parameters)) = 2
               /\ ListOf(heap, heap[m].Parameters)[1].HasDefault

----------------------------------------------------------------------------
(* SpecAccess: a list accessor called on one entity of the heap, then the  *)
(* caller writing to the container it was handed.                          *)

\* the list accessors of the entity o
Accessors(o) ==
    CASE o.k = "Root"     -> {"GetClasses", "GetEnums"}
      [] o.k = "Class"    -> {"GetMembers", "GetTags"}
      [] o.k = "Enum"     -> {"GetEnumItems", "GetTags"}
      [] HasParameters(o) -> {"GetParameters", "GetTags"}
      [] OTHER            -> {"GetTags"}

\* The call e.acc(): the heap after it and the address of the container it
\* returns.  GetParameters returns Parameters{List: &member.Parameters},
\* whose List is the member's own slice.
CallAccessor(h, e, acc) ==
    CASE acc = "GetClasses"    -> AllocList(h, "Classes", GetClasses(h, e))
      [] acc = "GetEnums"      -> AllocList(h, "Enums", GetEnums(h, e))
      [] acc = "GetMembers"    -> AllocList(h, "Members", GetMembers(h, e))
      [] acc = "GetEnumItems"  -> AllocList(h, "Items", GetEnumItems(h, e))
      [] acc = "GetTags"       -> EntityGetTags(h, e)
      [] acc = "GetParameters" -> [h |-> h, a |-> GetParameters(h, e)]

\* the ways a caller changes a container it holds
ContainerWrites == {"Drop", "Append", "Replace"}

\* the heap after the write to the container at address x:
\*   Drop      list = list[1:]
\*   Append    list = append(list, list[0])
\*   Replace   list[0] = list[len(list)-1]
WriteContainer(h, x, how) ==
    CASE how = "Drop"    -> SetList(h, x, Tail(ListOf(h, x)))
      [] how = "Append"  -> SetList(h, x, Append(ListOf(h, x), ListOf(h, x)[1]))
      [] how = "Replace" -> SetList(h, x, [ListOf(h, x) EXCEPT
                                               ![1] = ListOf(h, x)[Len(ListOf(h, x))]])

\* list := e.acc()
AccessCall ==
    /\ steps = 0
    /\ \E e \in Entities(heap) :
       \E acc \in Accessors(heap[e]) :
           /\ \E r \in {CallAccessor(heap, e, acc)} :
                  heap' = r.h /\ res' = [src |-> e, cp |-> r.a, acc |-> acc]
           /\ last' = [op |-> "Call", arg |-> acc]
    /\ prev' = heap
    /\ steps' = 1
    /\ UNCHANGED <<root, pool, added, tags, origin>>

\* the caller changes the container it was handed
AccessWrite ==
    /\ 0 < steps /\ steps < MaxSteps
    /\ ListOf(heap, res.cp) # <<>>
    /\ \E how \in ContainerWrites :
           /\ heap' = WriteContainer(heap, res.cp, how)
           /\ last' = [op |-> "WriteContainer", arg |-> how]
    /\ prev' = heap
    /\ steps' = steps + 1
    /\ UNCHANGED <<root, pool, res, added, tags, origin>>

AccessNext == AccessCall \/ AccessWrite

SpecAccess == CopyInit /\ [][AccessNext]_vars

\* what the entity at address e reports through the accessor acc
Report(h, e, acc) ==
    ListOf(CallAccessor(h, e, acc).h, CallAccessor(h, e, acc).a)

\* C13 as stated: a list accessor leaves the entity as it was, and a write
\* to the container it returned changes neither the entity nor what the
\* accessor reports afterwards.
C13_AccessorsNeverExposeStorage ==
    /\ last.op = "Call" => View(heap, res.src) = View(prev, res.src)
    /\ last.op = "WriteContainer" =>
           /\ View(heap, res.src) = View(prev, res.src)
           /\ Report(heap, res.src, res.acc) = Report(prev, res.src, res.acc)

\* C13 failing input: the first element of the container that GetParameters
\* returned for a member with a parameter was removed, and the member reports
\* one parameter less.
C13_FailingInput ==
    /\ last.op = "WriteContainer"
    /\ last.arg = "Drop"
    /\ res.acc = "GetParameters"
    /\ Len(Report(heap, res.src, res.acc)) + 1 = Len(Report(prev, res.src, res.acc))

----------------------------------------------------------------------------
(* SpecScenario: Add Class C, then Add Member M to C, then Remove Member M *)
(* from C, each by one Root.Patch call.                                    *)

\* Class.GetMember (rbxapi.go:121-128): the first member of the class with
\* the name, or nil
ClassGetMember(h, c, name) ==
    LET i == FirstNamed(h, GetMembers(h, c), name)
    IN  IF i = 0 THEN Nil ELSE GetMembers(h, c)[i]

\* the Roots the scenario starts from
ScenarioRoots == RootValues \o <<DumpRoot(<<>>, <<>>)>>

\* the class templates C, of names that no class of a starting Root has:
\* without members, with an Event named Y, with a Function named X, with a
\* Property named X
ScenarioClasses ==
    <<DumpClass(NameZ, NameA, <<>>, <<>>),
      DumpClass(NameZ, <<>>, <<DumpEvent(NameY, NameZ, <<ParamP>>, <<TagA>>)>>, <<TagA>>),
      JsonClass(NameJ, NameB,
          <<JsonFunction("Function", NameX, <<JsonParamQ>>, JsonTypeInt, <<>>, <<>>)>>,
          <<>>),
      JsonClass(NameJ, NameA, <<>>, <<TagB>>),
      DumpClass(NameF, NameB, <<DumpProperty(NameX, NameF, TypeEnumE, <<>>)>>, <<>>)>>

\* the Property templates M
ScenarioProperties ==
    <<DumpProperty(NameX, <<>>, TypeInt, <<TagA>>),
      DumpProperty(NameI, NameZ, TypeEnumE, <<>>),
      JsonProperty(NameX, JsonTypeEnumF, <<>>, <<>>, <<>>),
      JsonProperty(NameY, JsonTypeInt, PluginSecurity, <<>>, <<TagB>>)>>

ScenarioInit ==
    /\ \E i \in 1..Len(ScenarioRoots) :
           LET r  == LoadRoot(<<>>, ScenarioRoots[i])
               cs == LoadAll(r.h, ScenarioClasses, "Class")
               ms == LoadAll(cs.h, ScenarioProperties, "Member")
           IN  /\ heap = ms.h /\ root = r.a
               /\ pool = [classes |-> cs.as, members |-> ms.as]
    /\ res = [c |-> Nil, m |-> Nil, before |-> <<>>]
    /\ steps = 0 /\ added = {}
    /\ last = NoOp
    /\ prev = heap
    /\ tags = <<>> /\ origin = "none"

\* root.Patch with the action Add Class C
ScenarioAddClass ==
    /\ steps = 0
    /\ \E c \in 1..Len(pool.classes) :
           /\ heap' = RootPatch(heap, root,
                          <<ClassAction("Add", pool.classes[c], "", NoPayload)>>)
           /\ res' = [res EXCEPT !.c = pool.classes[c]]
    /\ last' = [op |-> "AddClass", arg |-> <<>>]
    /\ prev' = heap
    /\ steps' = 1
    /\ UNCHANGED <<root, pool, added, tags, origin>>

\* root.Patch with the action Add Member M to C; res.before keeps the
\* member list that C had before the call
ScenarioAddMember ==
    /\ steps = 1
    /\ \E m \in 1..Len(pool.members) :
           /\ heap' = RootPatch(heap, root,
                          <<MemberAction("Add", res.c, pool.members[m], "", NoPayload)>>)
           /\ res' = [res EXCEPT !.m = pool.members[m],
                          !.before = ViewClass(heap,
                              RootGetClass(heap, root, GetName(heap, res.c))).Members]
    /\ last' = [op |-> "AddMember", arg |-> <<>>]
    /\ prev' = heap
    /\ steps' = 2
    /\ UNCHANGED <<root, pool, added, tags, origin>>

\* root.Patch with the action Remove Member M from C
ScenarioRemoveMember ==
    /\ steps = 2
    /\ heap' = RootPatch(heap, root,
                   <<MemberAction("Remove", res.c, res.m, "", NoPayload)>>)
    /\ last' = [op |-> "RemoveMember", arg |-> <<>>]
    /\ prev' = heap
    /\ steps' = 3
    /\ UNCHANGED <<root, pool, res, added, tags, origin>>

ScenarioNext == ScenarioAddClass \/ ScenarioAddMember \/ ScenarioRemoveMember

SpecScenario == ScenarioInit /\ [][ScenarioNext]_vars

\* the class of the Root that has the name of the template C, in the heap h
ScenarioClass(h) == RootGetClass(h, root, GetName(h, res.c))

\* every class that the Root held before the last call, other than the one
\* at address c, is at its place and as it was
OtherClassesUnchanged(c) ==
    \A i \in 1..Len(ClassesOf(prev)) :
        /\ ClassesOf(heap)[i] = ClassesOf(prev)[i]
        /\ ClassesOf(prev)[i] # c =>
               ViewClass(heap, ClassesOf(prev)[i]) = ViewClass(prev, ClassesOf(prev)[i])

\* C15 as stated: Add Class C makes the Root one class longer and
\* GetClass(C) report the superclass of the template; Add Member M then
\* makes GetClass(C).GetMember(M) a Property with the value type of the
\* template; Remove Member M then leaves C with the member list it had
\* before M was added; the other classes stay as they were throughout.
C15_AddRemoveScenario ==
    /\ last.op = "AddClass" =>
           /\ Len(ClassesOf(heap)) = Len(ClassesOf(prev)) + 1
           /\ ScenarioClass(heap) # Nil
           /\ heap[ScenarioClass(heap)].Superclass = prev[res.c].Superclass
           /\ OtherClassesUnchanged(Nil)
    /\ last.op = "AddMember" =>
           LET m == ClassGetMember(heap, ScenarioClass(heap), GetName(heap, res.m))
           IN  /\ m # Nil
               /\ heap[m].k = "Property"
               /\ TypeGetCategory(heap[m].ValueType)
                      = TypeGetCategory(prev[res.m].ValueType)
               /\ TypeGetName(heap[m].ValueType) = TypeGetName(prev[res.m].ValueType)
               /\ OtherClassesUnchanged(ScenarioClass(prev))
    /\ last.op = "RemoveMember" =>
           /\ ViewClass(heap, ScenarioClass(heap)).Members = res.before
           /\ OtherClassesUnchanged(ScenarioClass(prev))

\* the class C held no member with the name of M before M was added
FreshMember == \A i \in 1..Len(res.before) : res.before[i].Name # prev[res.m].Name

\* C15, amended: the same, for a class C that holds no member with the name
\* of M before M is added.
C15_AddRemoveFreshMember ==
    (steps >= 2 => FreshMember) => C15_AddRemoveScenario

\* C15 witness: M was added to and removed from a class C that held a member
\* of another name, and C holds that member alone again.
C15_Witness ==
    /\ last.op = "RemoveMember"
    /\ FreshMember
    /\ Len(res.before) = 1
    /\ ViewClass(prev, ScenarioClass(prev)).Members # res.before
    /\ ViewClass(heap, ScenarioClass(heap)).Members = res.before

----------------------------------------------------------------------------
(* SpecSeq: one Root.Patch call that carries a list of several actions.    *)

\* most actions in the list of one call
MaxActions == 2

\* The actions a list is drawn from, over the pool p: for classes, members,
\* enums and items, changes with payloads of the expected type, changes
\* whose payload has another type, and additions and removals.
SeqActions(p) ==
    LET cA == p.classes[1]
        cB == p.classes[2]
        propX == p.members[1]
        eventY == p.members[2]
        funcX == p.members[3]
        eE == p.enums[1]
        eF == p.enums[2]
        iI == p.items[1]
    IN  <<ClassAction("Change", cA, "Name", NextString(NameB)),
          ClassAction("Change", cA, "Name", NextInt(7)),
          ClassAction("Change", cA, "Superclass", NextString(NameZ)),
          ClassAction("Change", cA, "Superclass", NextString(NameY)),
          ClassAction("Change", cA, "Superclass", NextTags(p.tagList)),
          ClassAction("Change", cA, "Tags", NextTags(p.tagList)),
          ClassAction("Change", cA, "Tags", NextString(NameZ)),
          ClassAction("Change", cB, "Superclass", NextString(NameX)),
          ClassAction("Add", cA, "", NoPayload),
          ClassAction("Remove", cA, "", NoPayload),
          MemberAction("Change", cA, propX, "ValueType", NextType(JsonTypeEnumF)),
          MemberAction("Change", cA, propX, "ValueType", NextString(NameZ)),
          MemberAction("Change", cA, propX, "ValueType", NextInt(7)),
          MemberAction("Change", cA, propX, "Name", NextInt(7)),
          MemberAction("Change", cA, propX, "Tags", NextString(NameZ)),
          MemberAction("Change", cA, funcX, "ReturnType", NextString(NameZ)),
          MemberAction("Change", cA, funcX, "ReturnType", NextTags(p.tagList)),
          MemberAction("Change", cA, funcX, "Parameters", NextParameters(p.parameters)),
          MemberAction("Change", cA, funcX, "Parameters", NextString(NameZ)),
          MemberAction("Change", cB, eventY, "Parameters", NextInt(7)),
          MemberAction("Change", cB, eventY, "Name", NextString(NameZ)),
          MemberAction("Add", cA, propX, "", NoPayload),
          MemberAction("Remove", cA, propX, "", NoPayload),
          EnumAction("Change", eE, "Name", NextString(NameZ)),
          EnumAction("Change", eE, "Name", NextInt(7)),
          EnumAction("Change", eE, "Tags", NextString(NameZ)),
          EnumItemAction("Change", eE, iI, "Value", NextInt(7)),
          EnumItemAction("Change", eE, iI, "Value", NextInt(5)),
          EnumItemAction("Change", eE, iI, "Value", NextString(NameZ)),
          EnumItemAction("Change", eF, iI, "Value", NextType(JsonTypeInt)),
          EnumItemAction("Change", eF, iI, "Tags", NextInt(7))>>

\* root.Patch(actions) for a list of one to MaxActions actions
PatchList ==
    /\ steps = 0
    /\ \E n \in 1..MaxActions :
         \E f \in [1..n -> 1..Len(SeqActions(pool))] :
           LET actions == [i \in 1..n |-> SeqActions(pool)[f[i]]]
           IN  /\ heap' = RootPatch(heap, root, actions)
               /\ last' = [op |-> "PatchList", arg |-> actions]
    /\ prev' = heap
    /\ steps' = steps + 1
    /\ UNCHANGED <<root, pool, res, tags, origin, added>>

SpecSeq == Init /\ [][PatchList]_vars

\* whether the payload of a Change action has a type other than the one its
\* field takes
Mismatched(action) ==
    /\ action.type = "Change"
    /\ CASE action.field \in {"Name", "Superclass"} -> action.next.t # "string"
         [] action.field = "Tags" -> action.next.t # "[]string"
         [] action.field = "Value" -> action.next.t # "int"
         [] action.field \in {"ValueType", "ReturnType"} ->
                action.next.t \notin {"Type", "string"}
         [] action.field = "Parameters" -> action.next.t # "Parameters"
         [] OTHER -> FALSE

\* the actions of a list whose payload fits
Fitting(actions) == SelectSeq(actions, LAMBDA a : ~Mismatched(a))

\* C18: a Change action whose payload has the wrong type for its field is a
\* silent no-op: a list of such actions leaves the whole Root, and the heap,
\* as they were, and in any list the other actions are applied as if the
\* mismatched ones were not there.
C18_MismatchIsNoOp ==
    last.op = "PatchList" =>
        /\ Fitting(last.arg) = <<>> => heap = prev
        /\ ViewRoot(heap, root)
             = ViewRoot(RootPatch(prev, root, Fitting(last.arg)), root)

\* C18 witness: the list began with a mismatched Change whose target the
\* Root holds, and the action after it changed the Root.
C18_Witness ==
    /\ last.op = "PatchList"
    /\ Len(last.arg) = 2
    /\ Mismatched(last.arg[1])
    /\ Target(prev, last.arg[1]) # Nil
    /\ ~Mismatched(last.arg[2])
    /\ ViewRoot(heap, root) # ViewRoot(prev, root)

\* the last operation was Root.Patch with an action that carries an owning
\* class and a member
PatchedMember ==
    /\ last.op = "Patch"
    /\ "Member" \in last.arg.caps
    /\ last.arg.class # Nil /\ last.arg.member # Nil

\* the members of the class at address c in the heap h
ClassMembers(h, c) == ListOf(h, h[c].Members)

\* whether the member list of the class c went from the heap h0 to the heap
\* h1 by one member appended, one member taken out or at most one member
\* changed, every other member staying as it was
OneMemberStep(h0, h1, c) ==
    LET m0 == ClassMembers(h0, c)
        m1 == ClassMembers(h1, c)
        v0 == [i \in 1..Len(m0) |-> ViewMember(h0, m0[i])]
        v1 == [i \in 1..Len(m1) |-> ViewMember(h1, m1[i])]
    IN  \/ Len(v1) = Len(v0) + 1 /\ SubSeq(v1, 1, Len(v0)) = v0
        \/ \E i \in 1..Len(v0) : v1 = RemoveAt(v0, i)
        \/ /\ Len(v1) = Len(v0)
           /\ Cardinality({i \in 1..Len(v0) : v1[i] # v0[i]}) <= 1

\* C19: an action that carries an owning class and a member, applied through
\* Root.Patch, keeps the list of classes and every class's Name, Superclass
\* and Tags, keeps the enums, changes the members of no class but the first
\* one named like the owning class, there by one member added, removed or
\* changed, and leaves the Root as it was when no class has that name.
C19_MemberActionStaysInClass ==
    PatchedMember =>
        LET pc    == ClassesOf(prev)
            owner == ActionClass(prev, last.arg)
        IN  /\ ClassesOf(heap) = pc
            /\ \A i \in 1..Len(pc) :
                   /\ heap[pc[i]].Name = prev[pc[i]].Name
                   /\ heap[pc[i]].Superclass = prev[pc[i]].Superclass
                   /\ ListOf(heap, heap[pc[i]].Tags) = ListOf(prev, prev[pc[i]].Tags)
                   /\ pc[i] # owner => ViewClass(heap, pc[i]) = ViewClass(prev, pc[i])
            /\ ViewRoot(heap, root).Enums = ViewRoot(prev, root).Enums
            /\ owner # Nil => OneMemberStep(prev, heap, owner)
            /\ owner = Nil => ViewRoot(heap, root) = ViewRoot(prev, root)

\* C19 witness: a Remove member action took a member out of the first of two
\* classes that have the owning class's name.
C19_Witness ==
    /\ PatchedMember
    /\ last.arg.type = "Remove"
    /\ Cardinality(NamedAt(prev, ClassesOf(prev), prev[last.arg.class].Name)) >= 2
    /\ Len(ClassMembers(heap, ActionClass(prev, last.arg)))
         < Len(ClassMembers(prev, ActionClass(prev, last.arg)))

\* the last operation was Root.Patch with a list of two actions
PatchedTwo == last.op = "PatchList" /\ Len(last.arg) = 2

\* the heap after the first action of the list of the last operation
Mid == RootPatch(prev, root, SubSeq(last.arg, 1, 1))

\* the last operation was Root.Patch with a list of two actions whose first
\* one changed the Name of a class that the Root holds to another name
PatchedRenameThen ==
    /\ PatchedTwo
    /\ last.arg[1].caps = {"Class"}
    /\ last.arg[1].type = "Change"
    /\ last.arg[1].field = "Name"
    /\ last.arg[1].next.t = "string"
    /\ ActionClass(prev, last.arg[1]) # Nil
    /\ last.arg[1].next.v # prev[last.arg[1].class].Name

\* whether an action looks for a class of the name, to change or remove it or
\* to reach one of its members
TargetsClass(h, action, name) ==
    /\ "Class" \in action.caps
    /\ action.type # "Add" \/ "Member" \in action.caps
    /\ h[action.class].Name = name

\* Root.Patch(xs ++ ys) leaves the Root that Root.Patch(xs) followed by
\* Root.Patch(ys) leaves, for every way to cut the list in two
SplitsAgree ==
    last.op = "PatchList" =>
        \A k \in 0..Len(last.arg) :
            ViewRoot(heap, root)
              = ViewRoot(RootPatch(RootPatch(prev, root, SubSeq(last.arg, 1, k)),
                                   root, SubSeq(last.arg, k + 1, Len(last.arg))),
                         root)

\* after a Change of a class's Name from A to B, a later action that targets
\* A finds nothing and one that targets B finds the renamed class
RenameSeen ==
    PatchedRenameThen =>
        LET renamed == ActionClass(prev, last.arg[1])
            nameA   == prev[last.arg[1].class].Name
            nameB   == last.arg[1].next.v
        IN  /\ TargetsClass(prev, last.arg[2], nameA)
                 => ViewRoot(heap, root) = ViewRoot(Mid, root)
            /\ TargetsClass(prev, last.arg[2], nameB)
                 => ActionClass(Mid, last.arg[2]) = renamed

\* the last operation was Root.Patch with two Change actions, both with a
\* payload that fits, on the same field of the same entity of the Root
PatchedSameFieldTwice ==
    /\ PatchedTwo
    /\ last.arg[1].type = "Change" /\ last.arg[2].type = "Change"
    /\ last.arg[1].field = last.arg[2].field
    /\ ~Mismatched(last.arg[1]) /\ ~Mismatched(last.arg[2])
    /\ Target(prev, last.arg[1]) # Nil
    /\ Target(prev, last.arg[2]) = Target(prev, last.arg[1])
    /\ Target(Mid, last.arg[2]) = Target(prev, last.arg[1])

\* of two Change actions on the same field of the same entity the later one
\* determines the final value: the Root is what the later one alone leaves
LastWriteWins ==
    PatchedSameFieldTwice =>
        ViewRoot(heap, root)
          = ViewRoot(RootPatch(prev, root, SubSeq(last.arg, 2, 2)), root)

\* C20 as stated: the actions of a list apply strictly in sequence:
\* Root.Patch(xs ++ ys) equals Root.Patch(xs) followed by Root.Patch(ys), an
\* action after a Change of a class's Name from A to B finds nothing under A
\* and finds the renamed class under B, and the later of two Change actions
\* on one field of one entity determines the final value.
C20_AppliedInSequence == SplitsAgree /\ RenameSeen /\ LastWriteWins

\* C20 failing input: in a Root whose names were pairwise distinct, a class
\* was renamed to the name of a class before it in the list, and the next
\* action of the list, which targets the new name, went to that other class.
C20_FailingInput ==
    /\ PatchedRenameThen
    /\ origin = "unique"
    /\ TargetsClass(prev, last.arg[2], last.arg[1].next.v)
    /\ ActionClass(Mid, last.arg[2]) # ActionClass(prev, last.arg[1])
    /\ ViewRoot(heap, root) # ViewRoot(Mid, root)

\* the list of the Root that holds the entities an action is matched
\* against, in the heap h: the classes, the members of the owning class, the
\* enums, or the items of the owning enum (<<>> when the owner is absent)
Container(h, action) ==
    IF "Member" \in action.caps
    THEN IF ActionClass(h, action) = Nil THEN <<>>
         ELSE ListOf(h, h[ActionClass(h, action)].Members)
    ELSE IF "Class" \in action.caps THEN ClassesOf(h)
    ELSE IF "EnumItem" \in action.caps
    THEN IF ActionEnum(h, action) = Nil THEN <<>>
         ELSE ListOf(h, h[ActionEnum(h, action)].Items)
    ELSE EnumsOf(h)

\* the indices of the container at which an action's target may be: the
\* elements with the name, and for a member with the member type too
Matching(h, action) ==
    IF "Member" \in action.caps
    THEN NamedOfTypeAt(h, Container(h, action), h[action.member].Name,
                       h[action.member].k)
    ELSE IF "Class" \in action.caps
    THEN NamedAt(h, Container(h, action), h[action.class].Name)
    ELSE IF "EnumItem" \in action.caps
    THEN NamedAt(h, Container(h, action), h[action.item].Name)
    ELSE NamedAt(h, Container(h, action), h[action.enum].Name)

\* the last operation was Root.Patch with a Remove action whose target the
\* Root held
PatchedRemoveOfTarget == Patched({"Remove"}) /\ Matching(prev, last.arg) # {}

\* the list the container of the last action has after the call
ContainerAfter ==
    IF "Member" \in last.arg.caps
    THEN ListOf(heap, heap[ActionClass(prev, last.arg)].Members)
    ELSE IF "Class" \in last.arg.caps THEN ClassesOf(heap)
    ELSE IF "EnumItem" \in last.arg.caps
    THEN ListOf(heap, heap[ActionEnum(prev, last.arg)].Items)
    ELSE EnumsOf(heap)

\* a Remove action whose target exists takes one element out of the
\* container, and the other elements keep their identity, their order and
\* their values
RemovesExactlyOne ==
    PatchedRemoveOfTarget =>
        /\ Len(ContainerAfter) = Len(Container(prev, last.arg)) - 1
        /\ \E i \in 1..Len(Container(prev, last.arg)) :
               ContainerAfter = RemoveAt(Container(prev, last.arg), i)
        /\ \A i \in 1..Len(ContainerAfter) :
               View(heap, ContainerAfter[i]) = View(prev, ContainerAfter[i])

\* C21 as stated: after a Remove class, enum, member or enum item action
\* whose target exists, the containing list is the previous list with only
\* the first matching element deleted: one element shorter, the others with
\* their identity and order.
C21_RemovalOrderPreserving ==
    PatchedRemoveOfTarget =>
        /\ ContainerAfter
             = RemoveAt(Container(prev, last.arg), Least(Matching(prev, last.arg)))
        /\ \A i \in 1..Len(ContainerAfter) :
               View(heap, ContainerAfter[i]) = View(prev, ContainerAfter[i])

\* C21 failing input: a Remove member action whose target the class holds
\* behind a member of the same name and another member type; the call took
\* out that other member and kept the target.
C21_FailingInput ==
    /\ PatchedRemoveOfTarget
    /\ "Member" \in last.arg.caps
    /\ Len(ContainerAfter) = Len(Container(prev, last.arg)) - 1
    /\ Container(prev, last.arg)[Least(Matching(prev, last.arg))]
         \in Range(ContainerAfter)

\* the member type of what the bridge makes of the member at address m:
\* that of a Property, a Function, a Callback or an Event of either package,
\* that of a foreign member with the methods of rbxapi.Function whose
\* GetMemberType is "Function" or "Callback", and "none" for any other
ConvertsTo(h, m) ==
    IF h[m].rep # "foreign" THEN h[m].k
    ELSE IF h[m].shape = "Function" /\ h[m].k \in {"Function", "Callback"}
    THEN h[m].k
    ELSE "none"

\* the member types of the members at the addresses as that convert, in order
KindsMade(h, as) ==
    LET made == FilterSeq(as, {m \in Range(as) : ConvertsTo(h, m) # "none"})
    IN  [i \in 1..Len(made) |-> ConvertsTo(h, made[i])]

\* the member types of the members of the class at address c, in order
KindsOf(h, c) == [i \in 1..Len(MembersOf(h, c)) |-> h[MembersOf(h, c)[i]].k]

\* C22: copyMember makes a Property of a Property, a Function of a Function,
\* a Callback of a Callback and an Event of an Event, and nothing of a
\* function-shaped source whose member type is neither "Function" nor
\* "Callback" or of a source of no recognised shape; copyClass and a member
\* Add action skip such a source and add nothing.
C22_BridgeDispatchesOnKind ==
    /\ last.op = "copyMember" =>
           /\ res # Nil
           /\ heap[res].rep = "dump"
           /\ heap[res].k = ConvertsTo(prev, pool.member)
    /\ last.op = "copyOtherMember" =>
           IF ConvertsTo(prev, last.arg) = "none"
           THEN res = Nil /\ heap = prev
           ELSE res # Nil /\ heap[res].k = ConvertsTo(prev, last.arg)
    /\ last.op = "copyClass" =>
           KindsOf(heap, res) = KindsMade(prev, MembersOf(prev, pool.class))
    /\ last.op = "Add" =>
           IF ConvertsTo(prev, last.arg) = "none"
           THEN heap = prev
           ELSE KindsOf(heap, res)
                  = Append(KindsOf(prev, res), ConvertsTo(prev, last.arg))

\* C22 witness: a member Add action carried a function-shaped member of a
\* foreign type, and the class made by copyClass from a class with a Callback
\* and that member holds the Callback and was left as it was.
C22_Witness ==
    /\ last.op = "Add"
    /\ prev[last.arg].rep = "foreign"
    /\ prev[last.arg].shape = "Function"
    /\ prev[pool.member].k = "Callback"
    /\ heap[MembersOf(heap, res)[1]].k = "Callback"
    /\ Len(MembersOf(heap, res)) = Len(MembersOf(prev, pool.class)) - 1

----------------------------------------------------------------------------
(* SpecSecurity: GetSecurity called once on an rbxapidump member whose tags *)
(* a caller chose.                                                          *)

\* longest tag list of the member
MaxSecurityTags == 2

StrSecurityUpper == <<"S", "E", "C", "U", "R", "I", "T", "Y">>

\* a tag with the write prefix and no closing bracket
WriteUnclosed == WritePrefix \o <<"X">>

\* tags the member may carry: plain, security-related in three spellings,
\* and write restrictions well formed, cut after the prefix and unclosed
SecurityLabels ==
    {TagA, PluginSecurity, StrSecurityLower, StrSecurityUpper,
     WriteRestricted, WritePrefix, WriteUnclosed}

SecurityInit ==
    /\ tags \in SeqsOf(SecurityLabels, 0, MaxSecurityTags)
    /\ origin = "installed"
    /\ last = NoOp
    /\ prev = tags
    /\ heap = <<>> /\ root = 0 /\ pool = <<>> /\ res = <<>> /\ steps = 0
    /\ added = {}

\* Function, Event or Callback.GetSecurity: getSecurity(member.Tags)
MemberGetSecurity ==
    /\ steps = 0
    /\ res' = [read |-> getSecurity(tags), write |-> <<>>, panic |-> FALSE]
    /\ last' = [op |-> "GetSecurity", arg |-> "Function"]
    /\ prev' = tags
    /\ steps' = 1
    /\ UNCHANGED <<tags, origin, heap, root, pool, added>>

\* Property.GetSecurity
PropertyGetSecurity ==
    /\ steps = 0
    /\ res' = DumpPropertyGetSecurity(tags)
    /\ last' = [op |-> "GetSecurity", arg |-> "Property"]
    /\ prev' = tags
    /\ steps' = 1
    /\ UNCHANGED <<tags, origin, heap, root, pool, added>>

SecurityNext == MemberGetSecurity \/ PropertyGetSecurity

SpecSecurity == SecurityInit /\ [][SecurityNext]_vars

\* the letters, upper case and lower case
UpperLetters ==
    <<"A", "B", "C", "D", "E", "F", "G", "H", "I", "J", "K", "L", "M",
      "N", "O", "P", "Q", "R", "S", "T", "U", "V", "W", "X", "Y", "Z">>
LowerLetters ==
    <<"a", "b", "c", "d", "e", "f", "g", "h", "i", "j", "k", "l", "m",
      "n", "o", "p", "q", "r", "s", "t", "u", "v", "w", "x", "y", "z">>

\* the string s with every upper case letter replaced by its lower case one
ToLower(s) ==
    [i \in 1..Len(s) |->
        IF \E j \in 1..Len(UpperLetters) : UpperLetters[j] = s[i]
        THEN LowerLetters[CHOOSE j \in 1..Len(UpperLetters) : UpperLetters[j] = s[i]]
        ELSE s[i]]

\* whether a tag contains "security", compared without regard to case
MentionsSecurity(tag) == Contains(ToLower(tag), StrSecurityLower)

\* the first tag of t that mentions security, or ""
FirstMentioningSecurity(t) ==
    LET hits == {i \in 1..Len(t) : MentionsSecurity(t[i])}
    IN  IF hits = {} THEN <<>> ELSE t[Least(hits)]

\* C23 as stated: the security context of a member of rbxapidump (the one of
\* a Function, Event or Callback, the read context of a Property) is the
\* first tag, in tag order, that contains "security" in any casing, and the
\* empty string when no tag does.
C23_SecurityCaseInsensitive ==
    (last.op = "GetSecurity" /\ ~res.panic)
        => res.read = FirstMentioningSecurity(tags)

\* C23 failing input: the first tag that mentions security spells it in
\* upper case, and GetSecurity did not return it.
C23_FailingInput ==
    /\ last.op = "GetSecurity" /\ last.arg = "Function"
    /\ FirstMentioningSecurity(tags) = StrSecurityUpper
    /\ res.read # StrSecurityUpper

\* whether, in the heap h, every member of every class of the Root has the
\* class's name as its Class and every item of every enum has the enum's
\* name as its Enum
OwnerNamesAgree(h) ==
    /\ \A i \in 1..Len(ClassesOf(h)) :
           LET c == ClassesOf(h)[i]
           IN  \A j \in 1..Len(ClassMembers(h, c)) :
                   h[ClassMembers(h, c)[j]].Class = h[c].Name
    /\ \A i \in 1..Len(EnumsOf(h)) :
           LET e == EnumsOf(h)[i]
           IN  \A j \in 1..Len(ListOf(h, h[e].Items)) :
                   h[ListOf(h, h[e].Items)[j]].Enum = h[e].Name

\* C24 as stated: every member's Class is the name of the class that holds
\* it and every enum item's Enum is the name of the enum that holds it,
\* initially and after any sequence of Root.Patch calls.
C24_OwnerNamesConsistent == OwnerNamesAgree(heap)

\* C24 failing input: one Add member, Add enum item or Change of a class's
\* or enum's Name, applied to a Root whose owner names agreed, left a member
\* or an item with another owner name than its holder's.
C24_FailingInput ==
    /\ Patched({"Add", "Change"})
    /\ OwnerNamesAgree(prev)
    /\ ~OwnerNamesAgree(heap)

\* the indices of the tags of t that start with the write prefix
Prefixed(t) == {i \in 1..Len(t) : HasPrefix(t[i], WritePrefix)}

\* C25 as stated: Property.GetSecurity of rbxapidump returns normally for
\* every tag list, a tag that is exactly the write prefix or has no closing
\* bracket included, and when the first tag with the write prefix is the
\* well-formed "ScriptWriteRestricted: [X]" the write context is X.
C25_GetSecurityReturns ==
    (last.op = "GetSecurity" /\ last.arg = "Property") =>
        /\ ~res.panic
        /\ (Prefixed(tags) # {} /\ tags[Least(Prefixed(tags))] = WriteRestricted)
               => res.write = PluginSecurity

\* C25 failing input: Property.GetSecurity met a tag that is exactly the
\* write prefix while no write context was set, and did not return.
C25_FailingInput ==
    /\ last.op = "GetSecurity" /\ last.arg = "Property"
    /\ WritePrefix \in Range(tags)
    /\ res.panic

====
